---- MODULE Spec2Model ----
(***************************************************************************)
(* Reconciliation engine of the Instagram data extractor scripts: a sheet  *)
(* of job rows is read, the rows that need processing are selected, each   *)
(* is fetched (with retries in the persistent extractor) and the outcome   *)
(* is written back to its row.                                             *)
(*                                                                         *)
(* Text is modelled as a sequence of characters (one-character strings),   *)
(* so that strip, startswith, substring tests, regular-expression search   *)
(* and truncation are computed as the scripts compute them.  A non-ASCII   *)
(* character is written as one element naming its code point ("U+2705").   *)
(***************************************************************************)
EXTENDS Integers, Sequences, FiniteSets, TLC

(* ---------------------------- bounds ----------------------------------- *)

\* Largest number of data rows (below the header row) in an initial sheet.
MaxRows == 2

(* ------------------------ program constants ----------------------------- *)

\* PersistentInstagramExtractor.__init__
max_retries_per_url == 5
max_total_attempts == 3

\* _clean_caption of the persistent extractor: truncation cap.
CAPTION_CAP == 150

\* Number of columns of the ranges A:N, A:M and A:L the scripts write.
WIDTH_A_N == 14
WIDTH_A_M == 13
WIDTH_A_L == 12

(* ------------------------- text literals -------------------------------- *)

URL_POST ==
    <<"h", "t", "t", "p", "s", ":", "/", "/", "w", "w", "w", ".", "i", "n",
      "s", "t", "a", "g", "r", "a", "m", ".", "c", "o", "m", "/", "p", "/",
      "A", "B", "C", "1", "2", "3", "/">>

URL_PADDED ==
    <<" ", "h", "t", "t", "p", "s", ":", "/", "/", "w", "w", "w", ".", "i",
      "n", "s", "t", "a", "g", "r", "a", "m", ".", "c", "o", "m", "/", "p",
      "/", "A", "B", "C", "1", "2", "3", "/", " ">>

URL_NOCODE ==
    <<"h", "t", "t", "p", "s", ":", "/", "/", "w", "w", "w", ".", "i", "n",
      "s", "t", "a", "g", "r", "a", "m", ".", "c", "o", "m", "/", "e", "x",
      "p", "l", "o", "r", "e", "/">>

URL_FOREIGN ==
    <<"h", "t", "t", "p", "s", ":", "/", "/", "e", "x", "a", "m", "p", "l",
      "e", ".", "c", "o", "m", "/", "p", "/", "A", "B", "C", "1", "2", "3",
      "/", "?", "i", "g", "s", "h", "=", "x", "y", "z">>

STR_http ==
    <<"h", "t", "t", "p">>

STR_instagram_com ==
    <<"i", "n", "s", "t", "a", "g", "r", "a", "m", ".", "c", "o", "m">>

STR_SUCCESS_MARK ==
    <<"U+2705", " ", "S", "U", "C", "C", "E", "S", "S">>

STR_FAILED_ALL ==
    <<"U+274C", " ", "F", "a", "i", "l", "e", "d", " ", "a", "f", "t", "e", "r",
      " ", "a", "l", "l", " ", "r", "e", "t", "r", "i", "e", "s">>

STR_PROC_FAILED ==
    <<"U+274C", " ", "P", "r", "o", "c", "e", "s", "s", "i", "n", "g", " ", "f",
      "a", "i", "l", "e", "d">>

STR_FRESH_DATA ==
    <<"U+26A1", " ", "F", "r", "e", "s", "h", " ", "D", "a", "t", "a">>

STR_PLAIN_SUCCESS ==
    <<"S", "U", "C", "C", "E", "S", "S">>

STR_NO_CAPTION ==
    <<"N", "o", " ", "c", "a", "p", "t", "i", "o", "n">>

STR_NOT_SPECIFIED ==
    <<"N", "o", "t", " ", "s", "p", "e", "c", "i", "f", "i", "e", "d">>

STR_UNKNOWN ==
    <<"U", "n", "k", "n", "o", "w", "n">>

STR_PHOTO ==
    <<"P", "h", "o", "t", "o">>

STR_VIDEO ==
    <<"V", "i", "d", "e", "o", "/", "R", "e", "e", "l">>

STR_ELLIPSIS ==
    <<".", ".", ".">>

STR_P ==
    <<"/", "p", "/">>

STR_REEL ==
    <<"/", "r", "e", "e", "l", "/">>

STR_TV ==
    <<"/", "t", "v", "/">>

STR_REELS ==
    <<"/", "r", "e", "e", "l", "s", "/">>

STR_INVALID_FMT ==
    <<"I", "n", "v", "a", "l", "i", "d", " ", "U", "R", "L", " ", "f", "o",
      "r", "m", "a", "t">>

STR_NOT_ACCESSIBLE ==
    <<"P", "o", "s", "t", " ", "n", "o", "t", " ", "a", "c", "c", "e", "s",
      "s", "i", "b", "l", "e">>

STR_PRIVATE ==
    <<"P", "r", "i", "v", "a", "t", "e", "/", "R", "e", "s", "t", "r", "i",
      "c", "t", "e", "d", " ", "c", "o", "n", "t", "e", "n", "t">>

STR_TECH_ERROR ==
    <<"T", "e", "c", "h", "n", "i", "c", "a", "l", " ", "e", "r", "r", "o",
      "r", " ", "d", "u", "r", "i", "n", "g", " ", "e", "x", "t", "r", "a",
      "c", "t", "i", "o", "n">>

STR_PROC_FAILED_PLAIN ==
    <<"P", "r", "o", "c", "e", "s", "s", "i", "n", "g", " ", "f", "a", "i",
      "l", "e", "d">>

STR_RT_INVALID ==
    <<"U+274C", " ", "I", "n", "v", "a", "l", "i", "d", " ", "U", "R", "L">>

STR_RT_ERROR ==
    <<"U+274C", " ", "E", "r", "r", "o", "r">>

STR_LAST_REFRESH ==
    <<"L", "a", "s", "t", " ", "R", "e", "f", "r", "e", "s", "h", ":", " ",
      "1", "2", ":", "0", "0", ":", "0", "0">>

STR_MANUAL_REFRESH ==
    <<"U+1F504", " ", "M", "a", "n", "u", "a", "l", " ", "R", "e", "f", "r", "e",
      "s", "h", ":", " ", "R", "u", "n", " ", "G", "i", "t", "H", "u", "b",
      " ", "A", "c", "t", "i", "o", "n">>

STR_NOW_IST ==
    <<"0", "1", "/", "0", "8", "/", "2", "0", "2", "5", " ", "1", "2", ":",
      "0", "0", ":", "0", "0", " ", "I", "S", "T">>

STR_POSTED_IST ==
    <<"3", "1", "/", "0", "7", "/", "2", "0", "2", "5", " ", "0", "9", ":",
      "3", "0", " ", "I", "S", "T">>

STR_NOW_RT ==
    <<"2", "0", "2", "5", "-", "0", "8", "-", "0", "1", " ", "1", "2", ":",
      "0", "0", ":", "0", "0">>

STR_POSTED_RT ==
    <<"2", "0", "2", "5", "-", "0", "7", "-", "3", "1", " ", "0", "4", ":",
      "0", "0", ":", "0", "0">>

HEADERS_PERSISTENT ==
    <<<<"I", "n", "s", "t", "a", "g", "r", "a", "m", " ", "U", "R", "L">>,
      <<"A", "c", "c", "o", "u", "n", "t", " ", "H", "a", "n", "d", "l", "e">>,
      <<"L", "i", "k", "e", "s", " ", "C", "o", "u", "n", "t">>,
      <<"C", "o", "m", "m", "e", "n", "t", "s", " ", "C", "o", "u", "n", "t">>,
      <<"V", "i", "e", "w", "s", " ", "C", "o", "u", "n", "t">>,
      <<"C", "o", "n", "t", "e", "n", "t", " ", "T", "y", "p", "e">>,
      <<"P", "o", "s", "t", "e", "d", " ", "D", "a", "t", "e">>,
      <<"C", "a", "p", "t", "i", "o", "n", " ", "T", "e", "x", "t">>,
      <<"H", "a", "s", "h", "t", "a", "g", "s", " ", "C", "o", "u", "n", "t">>,
      <<"L", "o", "c", "a", "t", "i", "o", "n">>,
      <<"L", "a", "s", "t", " ", "F", "e", "t", "c", "h", "e", "d", " ", "I", "S", "T">>,
      <<"P", "r", "o", "c", "e", "s", "s", "i", "n", "g", " ", "S", "t", "a", "t", "u", "s">>,
      <<"L", "a", "s", "t", " ", "U", "p", "d", "a", "t", "e", "d", " ", "I", "S", "T">>,
      <<"R", "e", "t", "r", "y", " ", "C", "o", "u", "n", "t">>>>

HEADERS_WORKING ==
    SubSeq(HEADERS_PERSISTENT, 1, 13)

HEADERS_REALTIME ==
    <<<<"U+1F4F1", " ", "I", "n", "s", "t", "a", "g", "r", "a", "m", " ", "U", "R", "L">>,
      <<"U+1F464", " ", "A", "c", "c", "o", "u", "n", "t">>,
      <<"U+2764", " ", "L", "i", "k", "e", "s">>,
      <<"U+1F4AC", " ", "C", "o", "m", "m", "e", "n", "t", "s">>,
      <<"U+1F441", " ", "V", "i", "e", "w", "s">>,
      <<"U+1F3AC", " ", "T", "y", "p", "e">>,
      <<"U+1F4C5", " ", "P", "o", "s", "t", "e", "d", " ", "D", "a", "t", "e">>,
      <<"U+1F4DD", " ", "C", "a", "p", "t", "i", "o", "n">>,
      <<"U+1F3F7", " ", "H", "a", "s", "h", "t", "a", "g", "s">>,
      <<"U+1F4CD", " ", "L", "o", "c", "a", "t", "i", "o", "n">>,
      <<"U+26A1", " ", "L", "a", "s", "t", " ", "U", "p", "d", "a", "t", "e", "d">>,
      <<"U+2705", " ", "S", "t", "a", "t", "u", "s">>>>

(* ------------------------- text operations ------------------------------ *)

\* The empty text; also stands for None where the code only tests truthiness.
EMPTY == << >>

Letters ==
    {"a","b","c","d","e","f","g","h","i","j","k","l","m","n","o","p","q","r",
     "s","t","u","v","w","x","y","z","A","B","C","D","E","F","G","H","I","J",
     "K","L","M","N","O","P","Q","R","S","T","U","V","W","X","Y","Z"}

Digits ==
    {"0","1","2","3","4","5","6","7","8","9"}

\* [A-Za-z0-9_-]
ShortcodeChars ==
    Letters \cup Digits \cup {"_", "-"}

\* \w
WordChars ==
    Letters \cup Digits \cup {"_"}

IsSpace(c) ==
    c \in {" ", "\t", "\n", "\r", "\f"}

RECURSIVE LStrip(_)
LStrip(s) ==
    IF s = EMPTY THEN s
    ELSE IF IsSpace(Head(s)) THEN LStrip(Tail(s)) ELSE s

RECURSIVE RStrip(_)
RStrip(s) ==
    IF s = EMPTY THEN s
    ELSE IF IsSpace(s[Len(s)]) THEN RStrip(SubSeq(s, 1, Len(s) - 1)) ELSE s

\* str.strip()
Strip(s) ==
    RStrip(LStrip(s))

MatchAt(s, p, i) ==
    /\ i >= 1
    /\ i + Len(p) - 1 <= Len(s)
    /\ SubSeq(s, i, i + Len(p) - 1) = p

\* str.startswith(p)
StartsWith(s, p) ==
    MatchAt(s, p, 1)

\* p in s
Contains(s, p) ==
    \E i \in 1..(Len(s) - Len(p) + 1) : MatchAt(s, p, i)

\* Longest run of characters of cs in s starting at position i.
RECURSIVE Run(_, _, _)
Run(s, cs, i) ==
    IF i > Len(s) \/ s[i] \notin cs THEN EMPTY
    ELSE <<s[i]>> \o Run(s, cs, i + 1)

\* Positions where prefix is followed by at least one shortcode character.
SearchHits(prefix, s) ==
    {i \in 1..Len(s) : /\ MatchAt(s, prefix, i)
                       /\ i + Len(prefix) <= Len(s)
                       /\ s[i + Len(prefix)] \in ShortcodeChars}

Min(S) ==
    CHOOSE x \in S : \A y \in S : x <= y

\* re.search(prefix + '([A-Za-z0-9_-]+)', s).group(1), EMPTY when no match.
ReSearchGroup(prefix, s) ==
    IF SearchHits(prefix, s) = {} THEN EMPTY
    ELSE Run(s, ShortcodeChars, Min(SearchHits(prefix, s)) + Len(prefix))

\* str.split(): the maximal runs of non-whitespace characters.
RECURSIVE Split(_)
Split(s) ==
    LET t == LStrip(s)
        n == IF \E i \in 1..Len(t) : IsSpace(t[i])
             THEN Min({i \in 1..Len(t) : IsSpace(t[i])}) - 1
             ELSE Len(t)
    IN IF t = EMPTY THEN << >>
       ELSE <<SubSeq(t, 1, n)>> \o Split(SubSeq(t, n + 1, Len(t)))

\* ' '.join(words)
RECURSIVE JoinSpace(_)
JoinSpace(words) ==
    IF words = << >> THEN EMPTY
    ELSE IF Len(words) = 1 THEN words[1]
    ELSE words[1] \o <<" ">> \o JoinSpace(Tail(words))

DigitChar(d) ==
    <<"0","1","2","3","4","5","6","7","8","9">>[d + 1]

\* str(n) for n >= 0
RECURSIVE Str(_)
Str(n) ==
    IF n < 10 THEN <<DigitChar(n)>>
    ELSE Str(n \div 10) \o <<DigitChar(n % 10)>>

\* f"{n:,}" for n >= 0
RECURSIVE FormatThousands(_)
FormatThousands(n) ==
    IF n < 1000 THEN Str(n)
    ELSE FormatThousands(n \div 1000) \o <<",">>
         \o <<DigitChar((n % 1000) \div 100), DigitChar((n % 100) \div 10),
              DigitChar(n % 10)>>

\* len(re.findall(r'#\w+', s))
CountHashtags_every_mark(s) ==
    Cardinality({i \in 1..Len(s) : s[i] = "#"})

\* len(re.findall(r'#\w+', s))
CountHashtags(s) ==
    Cardinality({i \in 1..(Len(s) - 1) : s[i] = "#" /\ s[i + 1] \in WordChars})

(* --------------------- fetched posts (remote source) -------------------- *)

\* What instaloader.Post exposes for the posts the remote source can return.
\* caption EMPTY and location EMPTY stand for None; has_date FALSE for a
\* missing post.date.
Posts ==
    {[owner_username |-> <<"n", "a", "s", "a">>,
      likes |-> 1234, comments |-> 56,
      is_video |-> FALSE, video_view_count |-> 0, has_date |-> TRUE,
      caption |-> <<"h", "e", "l", "l", "o", " ", " ", " ", "w", "o", "r",
                    "l", "d", " ", "#", "a", " ", "#", "b">>,
      location |-> EMPTY]}

\* Outcomes of instaloader.Post.from_shortcode: the post, or one of the
\* exceptions the scripts catch.
FetchFailures ==
    {"TooManyRequestsException", "PostUnavailableException",
     "LoginRequiredException", "ConnectionException"}

\* Failure kind of the taxonomy for each exception.
FailureKind(exc) ==
    CASE exc = "TooManyRequestsException" -> "RATE_LIMITED"
      [] exc = "PostUnavailableException" -> "NOT_FOUND"
      [] exc = "LoginRequiredException" -> "ACCESS_DENIED"
      [] OTHER -> "TRANSIENT"

\* The exceptions of the terminal failure kinds NOT_FOUND and ACCESS_DENIED.
IsTerminal(exc) ==
    exc \in FetchFailures
    /\ FailureKind(exc) \in {"NOT_FOUND", "ACCESS_DENIED"}

\* No fetch attempt of the job has been made yet.
NO_LOADER ==
    "none"

\* The loader made in _initialize_services, self.instagram_loader.
DEFAULT_LOADER ==
    "instagram_loader"

\* A loader made by instaloader.Instaloader(...) in _create_fresh_loader.
FRESH_LOADER ==
    "fresh_loader"

\* time.sleep(60) of the TooManyRequestsException handler.
RATE_LIMIT_COOLDOWN ==
    60

\* Values of random.uniform(1, 3): both ends and the middle.
Jitters ==
    {1, 2, 3}

(* -------------------- pure functions of the scripts --------------------- *)

RECURSIVE FirstMatch(_, _)
FirstMatch(patterns, url) ==
    IF patterns = << >> THEN EMPTY
    ELSE IF ReSearchGroup(Head(patterns), url) # EMPTY
         THEN ReSearchGroup(Head(patterns), url)
         ELSE FirstMatch(Tail(patterns), url)

\* Variant that tries the patterns from the last to the first.
extract_shortcode_reversed(url) ==
    FirstMatch(<<STR_TV, STR_REEL, STR_P>>, Strip(url))

\* _extract_shortcode of the persistent, working and real-time extractors.
extract_shortcode(url) ==
    FirstMatch(<<STR_P, STR_REEL, STR_TV>>, Strip(url))

\* _extract_shortcode of the professional extractor (also /reels/).
extract_shortcode_professional(url) ==
    FirstMatch(<<STR_P, STR_REEL, STR_TV, STR_REELS>>, Strip(url))

\* Variant that cuts the text before it collapses the whitespace.
clean_caption_cap_cut_first(caption, cap) ==
    IF caption = EMPTY THEN STR_NO_CAPTION
    ELSE IF Len(caption) > cap
         THEN JoinSpace(Split(SubSeq(caption, 1, cap))) \o STR_ELLIPSIS
         ELSE JoinSpace(Split(caption))

\* _clean_caption with a truncation cap.
clean_caption_cap(caption, cap) ==
    IF caption = EMPTY THEN STR_NO_CAPTION
    ELSE LET cleaned == JoinSpace(Split(caption))
         IN IF Len(cleaned) > cap
            THEN SubSeq(cleaned, 1, cap) \o STR_ELLIPSIS
            ELSE cleaned

\* PersistentInstagramExtractor._clean_caption
clean_caption(caption) ==
    clean_caption_cap(caption, CAPTION_CAP)

\* The data dict built from a fetched post (persistent, working and
\* professional extractors).
post_data(post) ==
    [account |-> post.owner_username,
     likes |-> post.likes,
     comments |-> post.comments,
     views |-> IF post.is_video THEN post.video_view_count ELSE 0,
     type |-> IF post.is_video THEN STR_VIDEO ELSE STR_PHOTO,
     posted_date |-> IF post.has_date THEN STR_POSTED_IST ELSE STR_UNKNOWN,
     caption |-> clean_caption(post.caption),
     hashtags |-> IF post.caption # EMPTY THEN CountHashtags(post.caption)
                  ELSE 0,
     location |-> IF post.location # EMPTY THEN post.location
                  ELSE STR_NOT_SPECIFIED,
     last_fetched |-> STR_NOW_IST,
     last_updated |-> STR_NOW_IST]

Blanks(n) ==
    [k \in 1..n |-> EMPTY]

\* Variant with the status message right after the reference.
row_data_failure_persistent_front(url, status, retry_count) ==
    <<url,
      IF status = "ALL_RETRIES_FAILED" THEN STR_FAILED_ALL
      ELSE STR_PROC_FAILED>>
    \o Blanks(11) \o <<STR_NOW_IST, Str(retry_count)>>

\* row_data of PersistentInstagramExtractor._update_sheet_row.  data is << >>
\* for None and <<d>> for a data dict d.
row_data_failure_persistent(url, status, retry_count) ==
    <<url>> \o Blanks(11)
    \o <<IF status = "ALL_RETRIES_FAILED" THEN STR_FAILED_ALL
         ELSE STR_PROC_FAILED,
         STR_NOW_IST, Str(retry_count)>>

row_data_persistent(url, data, status, retry_count) ==
    IF data # << >> /\ status = "SUCCESS"
    THEN LET d == data[1]
         IN <<url, <<"@">> \o d.account, FormatThousands(d.likes),
              FormatThousands(d.comments), FormatThousands(d.views), d.type,
              d.posted_date, d.caption, Str(d.hashtags), d.location,
              d.last_fetched, STR_SUCCESS_MARK, STR_NOW_IST,
              Str(retry_count)>>
    ELSE row_data_failure_persistent(url, status, retry_count)

\* row_data of WorkingInstagramExtractor._update_sheet_row.
row_data_working(url, data, status) ==
    IF data # << >> /\ status = "SUCCESS"
    THEN LET d == data[1]
         IN <<url, <<"@">> \o d.account, FormatThousands(d.likes),
              FormatThousands(d.comments), FormatThousands(d.views), d.type,
              d.posted_date, d.caption, Str(d.hashtags), d.location,
              d.last_fetched, STR_PLAIN_SUCCESS, STR_NOW_IST>>
    ELSE <<url>> \o Blanks(10)
         \o <<IF status = "INVALID_URL" THEN STR_INVALID_FMT
              ELSE STR_PROC_FAILED_PLAIN,
              STR_NOW_IST>>

\* row_data of ProfessionalInstagramExtractor._update_sheet_row_professional.
row_data_professional(url, data, status) ==
    IF data # << >> /\ status = "SUCCESS"
    THEN row_data_working(url, data, status)
    ELSE <<url>> \o Blanks(10)
         \o <<CASE status = "INVALID_URL" -> STR_INVALID_FMT
                [] status = "POST_UNAVAILABLE" -> STR_NOT_ACCESSIBLE
                [] status = "LOGIN_REQUIRED" -> STR_PRIVATE
                [] status = "EXTRACTION_ERROR" -> STR_TECH_ERROR
                [] OTHER -> STR_PROC_FAILED_PLAIN,
              STR_NOW_IST>>

\* RealTimeInstagramExtractor._clean_caption (cap 100).
clean_caption_realtime(caption) ==
    clean_caption_cap(caption, 100)

\* post_data dict of RealTimeInstagramExtractor.extract_post_data; the counts
\* are formatted here.  << >> when building it raises (post.date is None).
post_data_realtime(post) ==
    IF ~post.has_date THEN << >>
    ELSE <<[account_name |-> <<"@">> \o post.owner_username,
            likes_count |-> FormatThousands(post.likes),
            comments_count |-> FormatThousands(post.comments),
            views_count |-> IF post.is_video
                            THEN FormatThousands(post.video_view_count)
                            ELSE <<"0">>,
            content_type |-> IF post.is_video THEN STR_VIDEO ELSE STR_PHOTO,
            posted_date |-> STR_POSTED_RT,
            caption_text |-> clean_caption_realtime(post.caption),
            hashtags_count |-> IF post.caption # EMPTY
                               THEN CountHashtags(post.caption) ELSE 0,
            location |-> IF post.location # EMPTY THEN post.location
                         ELSE STR_NOT_SPECIFIED,
            last_updated |-> STR_NOW_RT]>>

\* row_data of RealTimeInstagramExtractor.update_sheet_row.
row_data_realtime(url, data, status) ==
    IF data # << >> /\ status = "SUCCESS"
    THEN LET d == data[1]
         IN <<url, d.account_name, d.likes_count, d.comments_count,
              d.views_count, d.content_type, d.posted_date, d.caption_text,
              Str(d.hashtags_count), d.location, d.last_updated,
              STR_FRESH_DATA>>
    ELSE <<url>> \o Blanks(10)
         \o <<IF status = "INVALID_URL" THEN STR_RT_INVALID
              ELSE STR_RT_ERROR>>

(* ----------------------------- the sheet -------------------------------- *)

\* A sheet is a sequence of rows, a row a sequence of cells, a cell a text.
\* get_all_values pads short rows with empty cells; Cell reads a padded row.
Cell(row, k) ==
    IF k <= Len(row) THEN row[k] ELSE EMPTY

\* worksheet.row_values(r): the row without its trailing empty cells.
RECURSIVE TrimRight(_)
TrimRight(row) ==
    IF row = << >> THEN row
    ELSE IF row[Len(row)] = EMPTY THEN TrimRight(SubSeq(row, 1, Len(row) - 1))
    ELSE row

row_values(sh, r) ==
    IF r <= Len(sh) THEN TrimRight(sh[r]) ELSE << >>

\* worksheet.update('A<r>:..', [row_data]): the cells given replace the cells
\* of row r from column A on; cells to the right keep their value.
MergeRow(old, new) ==
    [k \in 1..(IF Len(old) > Len(new) THEN Len(old) ELSE Len(new)) |->
        IF k <= Len(new) THEN new[k] ELSE old[k]]

\* Variant that holds the row back instead of writing it.
sheet_update_held_back(sh, r, new) ==
    sh

\* A row number past the last row with values is a row of the grid all the
\* same: the rows in between stay empty.
sheet_update(sh, r, new) ==
    IF r <= Len(sh)
    THEN [sh EXCEPT ![r] = MergeRow(sh[r], new)]
    ELSE sh \o [k \in 1..(r - Len(sh) - 1) |-> << >>] \o <<new>>

\* Python slice all_data[1:] enumerated from 2: the row numbers of data rows.
DataRowNumbers(sh) ==
    2..Len(sh)

\* Variant that does not look at the status cell.
needs_processing_any_status(row) ==
    /\ Strip(Cell(row, 1)) # EMPTY
    /\ StartsWith(Strip(Cell(row, 1)), STR_http)
    /\ Contains(Strip(Cell(row, 1)), STR_instagram_com)

\* Variant that takes any http reference.
needs_processing_any_http(row) ==
    /\ Strip(Cell(row, 1)) # EMPTY
    /\ StartsWith(Strip(Cell(row, 1)), STR_http)
    /\ ~Contains(Cell(row, 12), STR_SUCCESS_MARK)

\* PersistentInstagramExtractor._collect_failed_urls, the test of one row.
needs_processing(row) ==
    /\ Strip(Cell(row, 1)) # EMPTY
    /\ StartsWith(Strip(Cell(row, 1)), STR_http)
    /\ Contains(Strip(Cell(row, 1)), STR_instagram_com)
    /\ ~Contains(Cell(row, 12), STR_SUCCESS_MARK)

\* Variant that hands on the reference as stored, not stripped.
RECURSIVE PairsFrom_raw(_, _, _)
PairsFrom_raw(all_data, r, sel) ==
    IF r > Len(all_data) THEN << >>
    ELSE (IF r \in sel THEN <<<<r, Cell(all_data[r], 1)>>>> ELSE << >>)
         \o PairsFrom_raw(all_data, r + 1, sel)

\* The rows of all_data whose number is in sel, from row r on, in row order,
\* as (row_index, url) pairs with the stripped reference.
RECURSIVE PairsFrom(_, _, _)
PairsFrom(all_data, r, sel) ==
    IF r > Len(all_data) THEN << >>
    ELSE (IF r \in sel THEN <<<<r, Strip(Cell(all_data[r], 1))>>>>
          ELSE << >>)
         \o PairsFrom(all_data, r + 1, sel)

collect_failed_urls(all_data) ==
    PairsFrom(all_data, 2,
              {r \in DataRowNumbers(all_data) : needs_processing(all_data[r])})

\* The row test of the working and professional extractors: every row with
\* an Instagram URL, whatever its status.
is_instagram_url_row(row) ==
    /\ Strip(Cell(row, 1)) # EMPTY
    /\ StartsWith(Strip(Cell(row, 1)), STR_http)
    /\ Contains(Strip(Cell(row, 1)), STR_instagram_com)

\* urls_to_process of process_all_urls / process_all_urls_professional.
collect_urls_to_process(all_data) ==
    PairsFrom(all_data, 2,
              {r \in DataRowNumbers(all_data) :
                  is_instagram_url_row(all_data[r])})

\* should_process of process_all_urls_realtime for a row with a reference.
should_process(row, force) ==
    force \/ ~Contains(Cell(row, 12), STR_FRESH_DATA)

\* The rows the real-time loop processes (it skips rows without a reference
\* and rows for which should_process is false).
collect_realtime(all_data, force) ==
    PairsFrom(all_data, 2,
              {r \in DataRowNumbers(all_data) :
                  /\ Strip(Cell(all_data[r], 1)) # EMPTY
                  /\ should_process(all_data[r], force)})

\* The text script s writes into the status cell of a completed row, and
\* looks for when it selects rows.
success_mark(s) ==
    CASE s = "persistent" -> STR_SUCCESS_MARK
      [] s = "realtime" -> STR_FRESH_DATA
      [] OTHER -> STR_PLAIN_SUCCESS

\* Row has status SUCCESS for script s (column L, Processing Status).
IsSuccessRow(s, row) ==
    Contains(Cell(row, 12), success_mark(s))

(* ------------------------------- state ---------------------------------- *)

VARIABLES
    script,            \* which extractor script this deployment runs
    force_refresh,     \* FORCE_REFRESH of the real-time extractor
    sheet,             \* the worksheet: the job store
    sheet0,            \* the worksheet before the script started
    pc,                \* position of the script
    batch_attempt,     \* loop variable of process_urls_persistently
    all_data,          \* the rows read by get_all_values
    failed_urls,       \* the (row_index, url) pairs selected from all_data
    i,                 \* position in failed_urls (1-based, as enumerate(.., 1))
    attempt,           \* loop variable of _extract_post_data_with_retries
    result,            \* (data, status, retry_count) of the current job
    batch_successful,
    total_successful,
    processed_count,   \* counter of the single-pass scripts
    failed_count,      \* counter of the professional extractor
    returned,          \* return value of the entry point, << >> while running
    update_ok,         \* what the last row update returned
    job_fetches,       \* fetch attempts made for the current job
    job_first,         \* outcome of the current job's first fetch attempt
    job_uniform,       \* every failed attempt of the job raised the same
                       \* exception as the first
    stub_ffs,          \* so far in this run every job's fetches failed on
                       \* attempts 1 and 2 and succeeded on attempt 3, and
                       \* every sheet read and row update succeeded
    read_raised,       \* the latest worksheet.get_all_values() of the run
                       \* raised
    success_writes,    \* number of row updates of this run that put a
                       \* completed row into the sheet
    call,              \* one call of _extract_post_data_with_retries in
                       \* detail (RetrySpec): position, url, loop variable,
                       \* loader, sleeps, fetch outcomes, return value
    shifts,            \* rows another writer inserted into or removed from
                       \* the sheet during the run (ShiftSpec)
    pace,              \* one batch of the persistent extractor followed job
                       \* by job (PaceSpec): the jobs, the position, the
                       \* starts, ends and pacing sleeps so far
    manual,            \* the runs of the manual processor (ManualSpec)
    norm,              \* one application of a pure function of the scripts
                       \* to an input (NormSpec): the input, the result
    single             \* the runs of the single-URL processor (SingleSpec):
                       \* position, run number, row and url found, outcome,
                       \* return value, fetches and row updates of the run,
                       \* row the previous run processed

vars ==
    <<script, force_refresh, sheet, sheet0, pc, batch_attempt, all_data,
      failed_urls, i, attempt, result, batch_successful, total_successful,
      processed_count, failed_count, returned, update_ok, job_fetches,
      job_first, job_uniform, stub_ffs, read_raised, success_writes,
      call, shifts, single, norm,
      pace, manual>>

\* The variables of the job loop shared by all scripts.
loop_vars ==
    <<all_data, failed_urls, i>>

\* The per-job variables.
job_vars ==
    <<attempt, result, job_fetches, job_first, job_uniform>>

\* The counters.
counters ==
    <<batch_successful, total_successful, processed_count, failed_count>>

\* What never changes after Init.
config ==
    <<script, force_refresh, sheet0, call, shifts, single, norm,
      pace, manual>>

Scripts ==
    {"persistent", "working", "professional", "realtime"}

NoResult ==
    [data |-> << >>, status |-> "", retry_count |-> 0]

(* --------------------------- initial sheets ----------------------------- *)

AnyPost ==
    CHOOSE p \in Posts : TRUE

\* The row an earlier successful run of script s left behind.
CompletedRow(s) ==
    CASE s = "persistent" ->
            row_data_persistent(URL_POST, <<post_data(AnyPost)>>, "SUCCESS", 3)
      [] s = "realtime" ->
            row_data_realtime(URL_POST, post_data_realtime(AnyPost), "SUCCESS")
      [] OTHER ->
            row_data_working(URL_POST, <<post_data(AnyPost)>>, "SUCCESS")

\* Rows a sheet can hold before a run: references typed by the sheet's owner
\* (a post URL, the same with surrounding blanks, an Instagram URL without a
\* shortcode, a URL of another site, an empty row) and a row an earlier run
\* completed.
InitRows(s) ==
    {<<URL_POST>>, <<URL_PADDED>>, <<URL_NOCODE>>, <<URL_FOREIGN>>, << >>,
     CompletedRow(s)}

\* The headers list of the script's header setup.
Headers(s) ==
    CASE s = "persistent" -> HEADERS_PERSISTENT
      [] s = "realtime" -> HEADERS_REALTIME
      [] OTHER -> HEADERS_WORKING

\* The sequences of at most n pairwise different elements of S.
DistinctSeqsUpTo(S, n) ==
    UNION {{q \in [1..k -> S] : \A a, b \in 1..k : a # b => q[a] # q[b]}
           : k \in 0..n}

\* An empty worksheet; a worksheet the script set up before (its own header
\* row) with at most MaxRows rows; or a worksheet the owner started (only the
\* first header cell) with fewer rows.  No row is listed twice.
InitSheets(s) ==
    {<< >>}
    \cup {<<Headers(s)>> \o rows :
             rows \in DistinctSeqsUpTo(InitRows(s), MaxRows)}
    \cup {<<<<HEADERS_PERSISTENT[1]>>>> \o rows :
             rows \in DistinctSeqsUpTo(InitRows(s), MaxRows - 1)}

\* No batch is being followed job by job.
NoPace ==
    [pc |-> "none", jobs |-> << >>, i |-> 0, result |-> NoResult,
     events |-> << >>]

\* The manual processor is not running.
NoManual ==
    [pc |-> "none", run |-> 0, target_row |-> EMPTY, by_flag |-> FALSE,
     row_num |-> 0, url |-> EMPTY, result |-> NoResult, returned |-> << >>,
     written |-> 0, raised |-> FALSE, prev_row |-> 0]

\* No pure function is being applied.
NoNorm ==
    [pc |-> "none", url |-> EMPTY, suffix |-> EMPTY, expect |-> EMPTY,
     expect_professional |-> EMPTY, post |-> << >>, text |-> EMPTY,
     cap |-> 0, out |-> << >>]

\* The single-URL processor is not running.
NoSingle ==
    [pc |-> "none", run |-> 0, row_num |-> 0, url |-> EMPTY,
     result |-> NoResult, returned |-> << >>, fetches |-> 0, writes |-> 0,
     prev_row |-> 0]

\* No call of _extract_post_data_with_retries is followed in detail.
NoCall ==
    [pc |-> "none", url |-> EMPTY, attempt |-> 0, loader |-> NO_LOADER,
     fresh_raised |-> FALSE, delay |-> 0, cooldown |-> 0, outcomes |-> << >>,
     retval |-> NoResult]

Init ==
    /\ script \in Scripts
    /\ force_refresh \in (IF script = "realtime" THEN BOOLEAN ELSE {FALSE})
    /\ sheet \in InitSheets(script)
    /\ sheet0 = sheet
    /\ pc = "start"
    /\ batch_attempt = 0
    /\ all_data = << >>
    /\ failed_urls = << >>
    /\ i = 0
    /\ attempt = 0
    /\ result = NoResult
    /\ batch_successful = 0
    /\ total_successful = 0
    /\ processed_count = 0
    /\ failed_count = 0
    /\ returned = << >>
    /\ update_ok = FALSE
    /\ job_fetches = 0
    /\ job_first = ""
    /\ job_uniform = TRUE
    /\ stub_ffs = TRUE
    /\ read_raised = FALSE
    /\ success_writes = 0
    /\ call = NoCall
    /\ shifts = 0
    /\ single = NoSingle
    /\ norm = NoNorm
    /\ pace = NoPace
    /\ manual = NoManual

(* ------------------ construction: header setup -------------------------- *)

\* The test of _setup_headers / _setup_clean_headers (persistent, working,
\* professional): header row missing or shorter than the script's headers.
headers_need_setup(current_headers, headers) ==
    current_headers = << >> \/ Len(current_headers) < Len(headers)

\* The test of _setup_sheet_headers (real-time): header row missing or its
\* first cell not the script's first header.
headers_need_setup_realtime(current_headers, headers) ==
    current_headers = << >> \/ current_headers[1] # headers[1]

\* The sheet after the header setup ran with the given outcome of its calls:
\* worksheet.clear() empties the whole worksheet, append_row then adds the
\* header row; a call that raises ends the setup (the exception is logged
\* and swallowed).
sheet_after_setup(sh, headers, outcome) ==
    CASE outcome = "ok" -> <<headers>>
      [] outcome = "clear_raises" -> sh
      [] OTHER -> << >>

\* __init__ / _initialize_services / _setup_headers of the persistent,
\* working and professional extractors.
SetupHeaders ==
    /\ pc = "start"
    /\ script \in {"persistent", "working", "professional"}
    /\ IF headers_need_setup(row_values(sheet, 1), Headers(script))
       THEN \E outcome \in {"ok", "clear_raises", "append_raises"} :
               sheet' = sheet_after_setup(sheet, Headers(script), outcome)
       ELSE sheet' = sheet
    /\ pc' = IF script = "persistent" THEN "batch" ELSE "read"
    /\ UNCHANGED <<config, success_writes, read_raised, batch_attempt,
                   loop_vars, job_vars, counters, returned, update_ok,
                   stub_ffs>>

\* __init__ / _initialize_services / _setup_sheet_headers of the real-time
\* extractor; after the header row it writes the refresh note into N1.
SetupHeadersRealtime ==
    /\ pc = "start"
    /\ script = "realtime"
    /\ IF headers_need_setup_realtime(row_values(sheet, 1), Headers(script))
       THEN \E outcome \in {"ok", "clear_raises", "append_raises",
                            "note_raises"} :
               sheet' =
                  IF outcome = "ok"
                  THEN <<Headers(script) \o <<EMPTY, STR_MANUAL_REFRESH>>>>
                  ELSE IF outcome = "note_raises" THEN <<Headers(script)>>
                  ELSE sheet_after_setup(sheet, Headers(script), outcome)
       ELSE sheet' = sheet
    /\ pc' = "read"
    /\ UNCHANGED <<config, success_writes, read_raised, batch_attempt,
                   loop_vars, job_vars, counters, returned, update_ok,
                   stub_ffs>>

(* ---------------- persistent extractor: the batch loop ------------------ *)

\* return from the entry point
Return(value) ==
    /\ pc' = "done"
    /\ returned' = <<value>>
    /\ all_data' = << >>
    /\ failed_urls' = << >>
    /\ i' = 0

\* Variant with one batch more: for batch_attempt in range(N + 1).
batch_loop_continues_long(b) ==
    b < max_total_attempts + 1

\* Whether the batch loop runs another iteration: for batch_attempt in
\* range(max_total_attempts), line 278.
batch_loop_continues(b) ==
    b < max_total_attempts

\* Variant in which a read that raises ends the invocation.
BatchStart_read_fatal ==
    /\ pc = "batch"
    /\ script = "persistent"
    /\ \/ /\ stub_ffs' = FALSE                      \* get_all_values raises
          /\ read_raised' = TRUE
          /\ batch_attempt' = batch_attempt + 1
          /\ Return(0)
          /\ UNCHANGED batch_successful
       \/ /\ UNCHANGED <<stub_ffs, batch_attempt>>
          /\ read_raised' = FALSE
          /\ IF Len(sheet) <= 1
             THEN Return(0) /\ UNCHANGED batch_successful
             ELSE IF collect_failed_urls(sheet) = << >>
             THEN Return(total_successful) /\ UNCHANGED batch_successful
             ELSE /\ all_data' = sheet
                  /\ failed_urls' = collect_failed_urls(sheet)
                  /\ batch_successful' = 0
                  /\ i' = 1
                  /\ pc' = "job"
                  /\ UNCHANGED returned
    /\ UNCHANGED <<config, success_writes, sheet, job_vars, total_successful,
                   processed_count, failed_count, update_ok>>

\* Top of the batch loop, lines 278-295: read the sheet, select the rows to
\* process.  A read that raises is caught by the batch's handler (335-339),
\* which goes on to the next batch attempt.
BatchStart ==
    /\ pc = "batch"
    /\ script = "persistent"
    /\ \/ /\ stub_ffs' = FALSE                      \* get_all_values raises
          /\ read_raised' = TRUE
          /\ batch_attempt' = batch_attempt + 1
          /\ IF batch_loop_continues(batch_attempt + 1)
             THEN /\ pc' = "batch"
                  /\ UNCHANGED <<returned, loop_vars>>
             ELSE Return(total_successful)
          /\ UNCHANGED batch_successful
       \/ /\ UNCHANGED <<stub_ffs, batch_attempt>>
          /\ read_raised' = FALSE
          /\ IF Len(sheet) <= 1
             THEN Return(0) /\ UNCHANGED batch_successful
             ELSE IF collect_failed_urls(sheet) = << >>
             THEN Return(total_successful) /\ UNCHANGED batch_successful
             ELSE /\ all_data' = sheet
                  /\ failed_urls' = collect_failed_urls(sheet)
                  /\ batch_successful' = 0
                  /\ i' = 1
                  /\ pc' = "job"
                  /\ UNCHANGED returned
    /\ UNCHANGED <<config, success_writes, sheet, job_vars, total_successful,
                   processed_count, failed_count, update_ok>>

\* Start of _extract_post_data_with_retries, lines 142-146: an unparsable
\* reference returns at once with the retry count it was given (0).
JobStart ==
    /\ pc = "job"
    /\ script = "persistent"
    /\ LET url == failed_urls[i][2]
       IN IF extract_shortcode(url) = EMPTY
          THEN /\ result' = [data |-> << >>, status |-> "INVALID_URL",
                             retry_count |-> 0]
               /\ pc' = "update"
          ELSE /\ result' = NoResult
               /\ pc' = "attempt"
    /\ attempt' = 0
    /\ job_fetches' = 0
    /\ job_first' = ""
    /\ job_uniform' = TRUE
    /\ UNCHANGED <<config, success_writes, read_raised, sheet, batch_attempt,
                   loop_vars, counters, returned, update_ok, stub_ffs>>

\* Variant with one attempt more: for attempt in range(K + 1).
retry_loop_continues_extra(a) ==
    a < max_retries_per_url + 1

\* Variant with a ceiling of two attempts.
retry_loop_continues_two(a) ==
    a < 2

\* Variant with the ceiling off by one: for attempt in range(K - 1).
retry_loop_continues_short(a) ==
    a < max_retries_per_url - 1

\* Whether the retry loop runs another iteration: for attempt in range(K).
retry_loop_continues(a) ==
    a < max_retries_per_url

\* Variant in which a terminal failure ends the loop.
retry_after_nonterminal(exc) ==
    ~IsTerminal(exc)

\* Whether the loop goes on after an attempt failed with exception exc: both
\* handlers (TooManyRequestsException, Exception) end in continue.
retry_after(exc) ==
    TRUE

\* One iteration of the retry loop, lines 148-194: one fetch attempt.
FetchAttempt ==
    /\ pc = "attempt"
    /\ script = "persistent"
    /\ retry_loop_continues(attempt)
    /\ \E outcome \in {"OK"} \cup FetchFailures :
          /\ job_fetches' = job_fetches + 1
          /\ job_first' = IF attempt = 0 THEN outcome ELSE job_first
          /\ job_uniform' = (job_uniform /\ (outcome = "OK" \/ attempt = 0
                                             \/ outcome = job_first))
          /\ stub_ffs' = (stub_ffs /\ IF attempt < 2 THEN outcome # "OK"
                                      ELSE attempt = 2 /\ outcome = "OK")
          /\ IF outcome = "OK"
             THEN /\ \E post \in Posts :
                        result' = [data |-> <<post_data(post)>>,
                                   status |-> "SUCCESS",
                                   retry_count |-> 0 + attempt + 1]
                  /\ pc' = "update"
                  /\ attempt' = attempt
             ELSE IF retry_after(outcome)
                     /\ retry_loop_continues(attempt + 1)
             THEN /\ attempt' = attempt + 1
                  /\ UNCHANGED <<result, pc>>
             ELSE /\ result' = [data |-> << >>,
                                status |-> "ALL_RETRIES_FAILED",
                                retry_count |-> 0 + max_retries_per_url]
                  /\ pc' = "update"
                  /\ attempt' = attempt
    /\ UNCHANGED <<config, success_writes, read_raised, sheet, batch_attempt,
                   loop_vars, counters, returned, update_ok>>

\* The loop header of the job loop after a job: next job or end of the loop.
NextJob(end_pc) ==
    /\ IF i < Len(failed_urls)
       THEN i' = i + 1 /\ pc' = "job"
       ELSE i' = i /\ pc' = end_pc
    /\ result' = NoResult
    /\ attempt' = 0
    /\ job_fetches' = 0
    /\ job_first' = ""
    /\ job_uniform' = TRUE
    /\ UNCHANGED <<all_data, failed_urls>>

\* Variant that counts a success whether or not the row was written.
UpdateRow_counting_unwritten ==
    /\ pc = "update"
    /\ script = "persistent"
    /\ LET row_index == failed_urls[i][1]
           url == failed_urls[i][2]
           rd == row_data_persistent(url, result.data, result.status,
                                     result.retry_count)
       IN \E written \in BOOLEAN :
             /\ success_writes' =
                   IF written /\ IsSuccessRow(script, rd)
                   THEN success_writes + 1 ELSE success_writes
             /\ update_ok' = written
             /\ batch_successful' =
                   IF result.status = "SUCCESS"
                   THEN batch_successful + 1
                   ELSE batch_successful
             /\ IF written
                THEN /\ sheet' = sheet_update(sheet, row_index, rd)
                     /\ UNCHANGED stub_ffs
                ELSE /\ stub_ffs' = FALSE
                     /\ UNCHANGED sheet
    /\ NextJob("batch_end")
    /\ UNCHANGED <<config, read_raised, batch_attempt, total_successful,
                   processed_count, failed_count, returned>>

\* _update_sheet_row (lines 206-252) and the rest of the loop body (lines
\* 306-315).  The update either writes the row or raises; an exception is
\* logged and the method returns False.  The worksheet service refuses values
\* that do not fit the range A:N, so a longer row_data is written only if the
\* service lets it through; both outcomes are kept.
UpdateRow ==
    /\ pc = "update"
    /\ script = "persistent"
    /\ LET row_index == failed_urls[i][1]
           url == failed_urls[i][2]
           rd == row_data_persistent(url, result.data, result.status,
                                     result.retry_count)
       IN \E written \in BOOLEAN :
             /\ success_writes' =
                   IF written /\ IsSuccessRow(script, rd)
                   THEN success_writes + 1 ELSE success_writes
             /\ update_ok' = written
             /\ IF written
                THEN /\ sheet' = sheet_update(sheet, row_index, rd)
                     /\ batch_successful' =
                           IF result.status = "SUCCESS"
                           THEN batch_successful + 1
                           ELSE batch_successful
                     /\ UNCHANGED stub_ffs
                ELSE /\ stub_ffs' = FALSE
                     /\ UNCHANGED <<sheet, batch_successful>>
    /\ NextJob("batch_end")
    /\ UNCHANGED <<config, read_raised, batch_attempt, total_successful,
                   processed_count, failed_count, returned>>

\* Variant that keeps the count of the latest batch only.
BatchEnd_latest_batch_only ==
    /\ pc = "batch_end"
    /\ script = "persistent"
    /\ total_successful' = batch_successful
    /\ batch_successful' = 0
    /\ IF Len(failed_urls) - batch_successful = 0
       THEN Return(batch_successful)
            /\ UNCHANGED batch_attempt
       ELSE /\ batch_attempt' = batch_attempt + 1
            /\ IF batch_loop_continues(batch_attempt + 1)
               THEN /\ pc' = "batch"
                    /\ all_data' = << >>
                    /\ failed_urls' = << >>
                    /\ i' = 0
                    /\ UNCHANGED returned
               ELSE Return(batch_successful)
    /\ UNCHANGED <<config, success_writes, read_raised, sheet, job_vars,
                   processed_count, failed_count, update_ok, stub_ffs>>

\* End of a batch, lines 321-333, and the end of the batch loop, 341-342.
BatchEnd ==
    /\ pc = "batch_end"
    /\ script = "persistent"
    /\ total_successful' = total_successful + batch_successful
    /\ batch_successful' = 0
    /\ IF Len(failed_urls) - batch_successful = 0
       THEN Return(total_successful + batch_successful)
            /\ UNCHANGED batch_attempt
       ELSE /\ batch_attempt' = batch_attempt + 1
            /\ IF batch_loop_continues(batch_attempt + 1)
               THEN /\ pc' = "batch"
                    /\ all_data' = << >>
                    /\ failed_urls' = << >>
                    /\ i' = 0
                    /\ UNCHANGED returned
               ELSE Return(total_successful + batch_successful)
    /\ UNCHANGED <<config, success_writes, read_raised, sheet, job_vars,
                   processed_count, failed_count, update_ok, stub_ffs>>

(* ------------- single-pass extractors: working, professional ------------ *)

\* process_all_urls lines 210-231 (working) and process_all_urls_professional
\* lines 258-281: read the sheet and collect every Instagram URL row.  A read
\* that raises is caught by the outer handler, which returns 0.
\* Variant that reports the rows it read when none of them is selected.
ReadAllUrls_reporting_rows ==
    /\ pc = "read"
    /\ script \in {"working", "professional"}
    /\ \/ Return(0) /\ read_raised' = TRUE
       \/ /\ read_raised' = FALSE
          /\ IF Len(sheet) <= 1
             THEN Return(0)
             ELSE IF collect_urls_to_process(sheet) = << >>
             THEN Return(Len(sheet) - 1)
             ELSE /\ all_data' = sheet
                  /\ failed_urls' = collect_urls_to_process(sheet)
                  /\ i' = 1
                  /\ pc' = "job"
                  /\ UNCHANGED returned
    /\ UNCHANGED <<config, success_writes, sheet, batch_attempt, job_vars,
                   counters, update_ok, stub_ffs>>

ReadAllUrls ==
    /\ pc = "read"
    /\ script \in {"working", "professional"}
    /\ \/ Return(0) /\ read_raised' = TRUE          \* get_all_values raises
       \/ /\ read_raised' = FALSE
          /\ IF Len(sheet) <= 1 \/ collect_urls_to_process(sheet) = << >>
             THEN Return(0)
             ELSE /\ all_data' = sheet
                  /\ failed_urls' = collect_urls_to_process(sheet)
                  /\ i' = 1
                  /\ pc' = "job"
                  /\ UNCHANGED returned
    /\ UNCHANGED <<config, success_writes, sheet, batch_attempt, job_vars,
                   counters, update_ok, stub_ffs>>

\* The status _extract_post_data (working) returns when the fetch raises exc.
failure_status_working(exc) ==
    "EXTRACTION_ERROR"

\* The status _extract_post_data_professional returns when the fetch raises
\* exc, lines 167-175.
failure_status_professional(exc) ==
    CASE exc = "PostUnavailableException" -> "POST_UNAVAILABLE"
      [] exc = "LoginRequiredException" -> "LOGIN_REQUIRED"
      [] OTHER -> "EXTRACTION_ERROR"

\* The shortcode parser of script s.
shortcode_of(s, url) ==
    IF s = "professional" THEN extract_shortcode_professional(url)
    ELSE extract_shortcode(url)

\* The status the extraction method of script s returns for exception exc.
failure_status(s, exc) ==
    IF s = "professional" THEN failure_status_professional(exc)
    ELSE failure_status_working(exc)

\* One call of the extraction method of script s: a single fetch attempt.
ExtractOnce(s) ==
    /\ pc = "job"
    /\ LET url == failed_urls[i][2]
       IN IF shortcode_of(s, url) = EMPTY
          THEN /\ result' = [data |-> << >>, status |-> "INVALID_URL",
                             retry_count |-> 0]
               /\ job_fetches' = 0
               /\ job_first' = ""
          ELSE \E outcome \in {"OK"} \cup FetchFailures :
                  /\ job_fetches' = 1
                  /\ job_first' = outcome
                  /\ IF outcome = "OK"
                     THEN \E post \in Posts :
                             result' = [data |-> <<post_data(post)>>,
                                        status |-> "SUCCESS",
                                        retry_count |-> 0]
                     ELSE result' = [data |-> << >>,
                                     status |-> failure_status(s, outcome),
                                     retry_count |-> 0]
    /\ pc' = "update"
    /\ UNCHANGED <<config, success_writes, read_raised, sheet, batch_attempt,
                   loop_vars, attempt, job_uniform, counters, returned,
                   update_ok, stub_ffs>>

\* WorkingInstagramExtractor._extract_post_data, lines 119-154.
ExtractWorking ==
    /\ script = "working"
    /\ ExtractOnce("working")

\* ProfessionalInstagramExtractor._extract_post_data_professional, 133-175.
ExtractProfessional ==
    /\ script = "professional"
    /\ ExtractOnce("professional")

\* WorkingInstagramExtractor._update_sheet_row (166-204) and the rest of the
\* loop body (240-250): every row written counts as processed.
UpdateRowWorking ==
    /\ pc = "update"
    /\ script = "working"
    /\ LET row_index == failed_urls[i][1]
           url == failed_urls[i][2]
           rd == row_data_working(url, result.data, result.status)
       IN \E written \in BOOLEAN :
             /\ success_writes' =
                   IF written /\ IsSuccessRow(script, rd)
                   THEN success_writes + 1 ELSE success_writes
             /\ update_ok' = written
             /\ IF written
                THEN /\ sheet' = sheet_update(sheet, row_index, rd)
                     /\ processed_count' = processed_count + 1
                ELSE UNCHANGED <<sheet, processed_count>>
    /\ NextJob("finish")
    /\ UNCHANGED <<config, read_raised, batch_attempt, batch_successful,
                   total_successful, failed_count, returned, stub_ffs>>

\* ProfessionalInstagramExtractor._update_sheet_row_professional (195-252)
\* and the rest of the loop body (292-304).  The row is updated before the
\* row formatting is applied: if the formatting call raises, the row has been
\* written and the method still returns False.
UpdateRowProfessional ==
    /\ pc = "update"
    /\ script = "professional"
    /\ LET row_index == failed_urls[i][1]
           url == failed_urls[i][2]
           rd == row_data_professional(url, result.data, result.status)
       IN \E outcome \in {"ok", "update_raises", "format_raises"} :
             /\ success_writes' =
                   IF outcome # "update_raises" /\ IsSuccessRow(script, rd)
                   THEN success_writes + 1 ELSE success_writes
             /\ update_ok' = (outcome = "ok")
             /\ sheet' = IF outcome = "update_raises" THEN sheet
                         ELSE sheet_update(sheet, row_index, rd)
             /\ processed_count' =
                   IF outcome = "ok" /\ result.status = "SUCCESS"
                   THEN processed_count + 1 ELSE processed_count
             /\ failed_count' =
                   IF outcome = "ok" /\ result.status # "SUCCESS"
                   THEN failed_count + 1 ELSE failed_count
    /\ NextJob("finish")
    /\ UNCHANGED <<config, read_raised, batch_attempt, batch_successful,
                   total_successful, returned, stub_ffs>>

\* Variant that returns the successes only.
FinishSinglePass_successes ==
    /\ pc = "finish"
    /\ script \in {"working", "professional"}
    /\ Return(IF script = "working" THEN success_writes
              ELSE processed_count)
    /\ UNCHANGED <<config, success_writes, read_raised, sheet,
                   batch_attempt, job_vars, counters, update_ok, stub_ffs>>

\* The return after the loop: process_all_urls line 257 returns
\* processed_count, process_all_urls_professional line 318 returns
\* processed_count + failed_count.
FinishSinglePass ==
    /\ pc = "finish"
    /\ script \in {"working", "professional"}
    /\ Return(IF script = "working" THEN processed_count
              ELSE processed_count + failed_count)
    /\ UNCHANGED <<config, success_writes, read_raised, sheet, batch_attempt,
                   job_vars, counters, update_ok, stub_ffs>>

(* ---------------------- real-time extractor ----------------------------- *)

\* process_all_urls_realtime lines 194-222: read the sheet; the loop then
\* takes the rows with a reference that should be processed.
ReadRealtime ==
    /\ pc = "read"
    /\ script = "realtime"
    /\ \/ Return(0) /\ read_raised' = TRUE          \* get_all_values raises
       \/ /\ read_raised' = FALSE
          /\ IF Len(sheet) <= 1
             THEN Return(0)
             ELSE /\ all_data' = sheet
                  /\ failed_urls' = collect_realtime(sheet, force_refresh)
                  /\ i' = 1
                  /\ pc' = IF collect_realtime(sheet, force_refresh) = << >>
                           THEN "finish" ELSE "job"
                  /\ UNCHANGED returned
    /\ UNCHANGED <<config, success_writes, sheet, batch_attempt, job_vars,
                   counters, update_ok, stub_ffs>>

\* RealTimeInstagramExtractor.extract_post_data, lines 115-144: everything,
\* the fetch and the formatting of the post, is inside one try.
ExtractRealtime ==
    /\ pc = "job"
    /\ script = "realtime"
    /\ LET url == failed_urls[i][2]
       IN IF extract_shortcode(url) = EMPTY
          THEN /\ result' = [data |-> << >>, status |-> "INVALID_URL",
                             retry_count |-> 0]
               /\ job_fetches' = 0
               /\ job_first' = ""
          ELSE \E outcome \in {"OK"} \cup FetchFailures :
                  /\ job_fetches' = 1
                  /\ job_first' = outcome
                  /\ IF outcome = "OK"
                     THEN \E post \in Posts :
                             result' =
                                IF post_data_realtime(post) # << >>
                                THEN [data |-> post_data_realtime(post),
                                      status |-> "SUCCESS",
                                      retry_count |-> 0]
                                ELSE [data |-> << >>,
                                      status |-> "EXTRACTION_ERROR",
                                      retry_count |-> 0]
                     ELSE result' = [data |-> << >>,
                                     status |-> "EXTRACTION_ERROR",
                                     retry_count |-> 0]
    /\ pc' = "update"
    /\ UNCHANGED <<config, success_writes, read_raised, sheet, batch_attempt,
                   loop_vars, attempt, job_uniform, counters, returned,
                   update_ok, stub_ffs>>

\* Variant whose failure update writes the reference cell only.
UpdateRowRealtime_reference_only ==
    /\ pc = "update"
    /\ script = "realtime"
    /\ LET row_index == failed_urls[i][1]
           url == failed_urls[i][2]
           rd == row_data_realtime(url, result.data, result.status)
       IN \E written \in BOOLEAN :
             /\ success_writes' =
                   IF written /\ IsSuccessRow(script, rd)
                   THEN success_writes + 1 ELSE success_writes
             /\ update_ok' = written
             /\ IF written
                THEN /\ sheet' = sheet_update(sheet, row_index,
                                              IF IsSuccessRow(script, rd)
                                              THEN rd ELSE <<url>>)
                     /\ processed_count' = processed_count + 1
                ELSE UNCHANGED <<sheet, processed_count>>
    /\ NextJob("finish")
    /\ UNCHANGED <<config, read_raised, batch_attempt, batch_successful,
                   total_successful, failed_count, returned, stub_ffs>>

\* RealTimeInstagramExtractor.update_sheet_row (156-188) and the rest of the
\* loop body (230-239): every row written counts as processed.
UpdateRowRealtime ==
    /\ pc = "update"
    /\ script = "realtime"
    /\ LET row_index == failed_urls[i][1]
           url == failed_urls[i][2]
           rd == row_data_realtime(url, result.data, result.status)
       IN \E written \in BOOLEAN :
             /\ success_writes' =
                   IF written /\ IsSuccessRow(script, rd)
                   THEN success_writes + 1 ELSE success_writes
             /\ update_ok' = written
             /\ IF written
                THEN /\ sheet' = sheet_update(sheet, row_index, rd)
                     /\ processed_count' = processed_count + 1
                ELSE UNCHANGED <<sheet, processed_count>>
    /\ NextJob("finish")
    /\ UNCHANGED <<config, read_raised, batch_attempt, batch_successful,
                   total_successful, failed_count, returned, stub_ffs>>

\* worksheet.update('N2', ..): one cell of row 2.
sheet_update_cell(sh, r, col, value) ==
    [sh EXCEPT ![r] = [k \in 1..(IF Len(sh[r]) > col THEN Len(sh[r]) ELSE col)
                          |-> IF k = col THEN value ELSE Cell(sh[r], k)]]

\* process_all_urls_realtime lines 241-249: the refresh note goes into cell
\* N2, then the count is returned; if the note's update raises, the outer
\* handler returns 0.
FinishRealtime ==
    /\ pc = "finish"
    /\ script = "realtime"
    /\ \/ /\ sheet' = sheet_update_cell(sheet, 2, 14, STR_LAST_REFRESH)
          /\ Return(processed_count)
       \/ /\ UNCHANGED sheet
          /\ Return(0)
    /\ UNCHANGED <<config, success_writes, read_raised, batch_attempt,
                   job_vars, counters, update_ok, stub_ffs>>

(* --------------------------- specification ------------------------------ *)

Next ==
    \/ SetupHeaders
    \/ SetupHeadersRealtime
    \/ BatchStart
    \/ JobStart
    \/ FetchAttempt
    \/ UpdateRow
    \/ BatchEnd
    \/ ReadAllUrls
    \/ ExtractWorking
    \/ ExtractProfessional
    \/ UpdateRowWorking
    \/ UpdateRowProfessional
    \/ FinishSinglePass
    \/ ReadRealtime
    \/ ExtractRealtime
    \/ UpdateRowRealtime
    \/ FinishRealtime

Spec ==
    Init /\ [][Next]_vars

(* ------- one call of _extract_post_data_with_retries in detail ---------- *)

\* The variables of process_urls_persistently and of the other scripts.
engine_vars ==
    <<script, force_refresh, sheet, sheet0, pc, batch_attempt, all_data,
      failed_urls, i, attempt, result, batch_successful, total_successful,
      processed_count, failed_count, returned, update_ok, job_fetches,
      job_first, job_uniform, stub_ffs, read_raised, success_writes,
      shifts, single, norm,
      pace, manual>>

\* The urls the call is made with: process_urls_persistently passes the
\* stripped first cell of a selected row.
CallUrls ==
    {Strip(Cell(row, 1)) : row \in InitRows("persistent")} \ {EMPTY}

\* The persistent extractor after construction, about to make one call
\* _extract_post_data_with_retries(url) with the default retry_count of 0.
RetryInit ==
    /\ script = "persistent"
    /\ force_refresh = FALSE
    /\ sheet = <<HEADERS_PERSISTENT>>
    /\ sheet0 = sheet
    /\ pc = "start"
    /\ batch_attempt = 0
    /\ all_data = << >>
    /\ failed_urls = << >>
    /\ i = 0
    /\ attempt = 0
    /\ result = NoResult
    /\ batch_successful = 0
    /\ total_successful = 0
    /\ processed_count = 0
    /\ failed_count = 0
    /\ returned = << >>
    /\ update_ok = FALSE
    /\ job_fetches = 0
    /\ job_first = ""
    /\ job_uniform = TRUE
    /\ stub_ffs = TRUE
    /\ read_raised = FALSE
    /\ success_writes = 0
    /\ shifts = 0
    /\ single = NoSingle
    /\ norm = NoNorm
    /\ pace = NoPace
    /\ manual = NoManual
    /\ \E url \in CallUrls : call = [NoCall EXCEPT !.pc = "start", !.url = url]

\* Variant without the fallback: no loader when building the new one raised.
create_fresh_loader_no_fallback(built) ==
    IF built THEN FRESH_LOADER ELSE NO_LOADER

\* _create_fresh_loader, lines 120-140: a new loader, or the session's loader
\* when building the new one raised.
create_fresh_loader(built) ==
    IF built THEN FRESH_LOADER ELSE DEFAULT_LOADER

\* Variant that uses the session's loader for every attempt.
loader_for_session_only(a, built) ==
    DEFAULT_LOADER

\* The loader of the iteration with loop variable a, lines 153-156.
loader_for(a, built) ==
    IF a = 0 THEN DEFAULT_LOADER ELSE create_fresh_loader(built)

\* Variant whose delay does not grow with the attempt.
delay_before_flat(a, jitter) ==
    IF a = 0 THEN 0 ELSE 2 + jitter

\* Seconds slept before the fetch of the iteration with loop variable a,
\* lines 153-160: nothing in the first iteration, the progressive delay after.
delay_before(a, jitter) ==
    IF a = 0 THEN 0 ELSE (a + 1) * 2 + jitter

\* Variant without the cool-down after a rate-limit failure.
cooldown_after_none(exc) ==
    0

\* Seconds slept by the handler of exception exc, lines 185-191.
cooldown_after(exc) ==
    IF exc = "TooManyRequestsException" THEN RATE_LIMIT_COOLDOWN ELSE 0

\* Lines 142-146: an unparsable url returns at once.
CallStart ==
    /\ call.pc = "start"
    /\ call' = IF extract_shortcode(call.url) = EMPTY
               THEN [call EXCEPT !.pc = "returned",
                                 !.retval = [data |-> << >>,
                                             status |-> "INVALID_URL",
                                             retry_count |-> 0]]
               ELSE [call EXCEPT !.pc = "loop", !.attempt = 0]
    /\ UNCHANGED engine_vars

\* One iteration of the retry loop, lines 148-194: the loader is chosen, the
\* progressive delay is slept, the post is fetched, and a failure is handled;
\* after the last iteration the function returns ALL_RETRIES_FAILED.
RetryIteration ==
    /\ call.pc = "loop"
    /\ retry_loop_continues(call.attempt)
    /\ \E built \in BOOLEAN, jitter \in Jitters,
          outcome \in {"OK"} \cup FetchFailures :
          LET a == call.attempt
              iter == [call EXCEPT
                          !.loader = loader_for(a, built),
                          !.fresh_raised = (a # 0 /\ ~built),
                          !.delay = delay_before(a, jitter),
                          !.cooldown = IF outcome = "OK" THEN 0
                                       ELSE cooldown_after(outcome),
                          !.outcomes = Append(call.outcomes, outcome)]
          IN IF outcome = "OK"
             THEN \E post \in Posts :
                     call' = [iter EXCEPT
                                 !.pc = "returned",
                                 !.retval = [data |-> <<post_data(post)>>,
                                             status |-> "SUCCESS",
                                             retry_count |-> 0 + a + 1]]
             ELSE IF retry_after(outcome) /\ retry_loop_continues(a + 1)
             THEN call' = [iter EXCEPT !.attempt = a + 1]
             ELSE call' = [iter EXCEPT
                              !.pc = "returned",
                              !.retval =
                                  [data |-> << >>,
                                   status |-> "ALL_RETRIES_FAILED",
                                   retry_count |-> 0 + max_retries_per_url]]
    /\ UNCHANGED engine_vars

RetryNext ==
    \/ CallStart
    \/ RetryIteration

RetrySpec ==
    RetryInit /\ [][RetryNext]_vars

(* ------ the persistent extractor beside another writer of the sheet ----- *)

\* How many rows the other writer inserts or removes during a run.
MaxShifts == 1

\* Sheets of two references under the persistent header row.
ShiftSheets ==
    {<<HEADERS_PERSISTENT, <<URL_FOREIGN>>, <<URL_POST>>>>,
     <<HEADERS_PERSISTENT, <<URL_POST>>, <<URL_FOREIGN>>>>}

\* The row the other writer inserts: a new reference.
InsertedRows ==
    {<<URL_NOCODE>>}

ShiftInit ==
    /\ script = "persistent"
    /\ force_refresh = FALSE
    /\ sheet \in ShiftSheets
    /\ sheet0 = sheet
    /\ pc = "start"
    /\ batch_attempt = 0
    /\ all_data = << >>
    /\ failed_urls = << >>
    /\ i = 0
    /\ attempt = 0
    /\ result = NoResult
    /\ batch_successful = 0
    /\ total_successful = 0
    /\ processed_count = 0
    /\ failed_count = 0
    /\ returned = << >>
    /\ update_ok = FALSE
    /\ job_fetches = 0
    /\ job_first = ""
    /\ job_uniform = TRUE
    /\ stub_ffs = TRUE
    /\ read_raised = FALSE
    /\ success_writes = 0
    /\ call = NoCall
    /\ shifts = 0
    /\ single = NoSingle
    /\ norm = NoNorm
    /\ pace = NoPace
    /\ manual = NoManual

\* What the other writer leaves alone: everything but the sheet.
run_vars ==
    <<script, force_refresh, sheet0, pc, batch_attempt, all_data,
      failed_urls, i, attempt, result, batch_successful, total_successful,
      processed_count, failed_count, returned, update_ok, job_fetches,
      job_first, job_uniform, stub_ffs, read_raised, success_writes, call,
      single, norm,
      pace, manual>>

\* Between the read of a batch (line 282) and the row update of a job (line
\* 306) the other writer inserts a row above or below the data rows.
ExternalInsert ==
    /\ script = "persistent"
    /\ pc \in {"job", "attempt", "update"}
    /\ shifts < MaxShifts
    /\ \E p \in 2..(Len(sheet) + 1), row \in InsertedRows :
          sheet' = SubSeq(sheet, 1, p - 1) \o <<row>>
                   \o SubSeq(sheet, p, Len(sheet))
    /\ shifts' = shifts + 1
    /\ UNCHANGED run_vars

\* In the same window the other writer removes a data row.
ExternalRemove ==
    /\ script = "persistent"
    /\ pc \in {"job", "attempt", "update"}
    /\ shifts < MaxShifts
    /\ \E p \in 2..Len(sheet) :
          sheet' = SubSeq(sheet, 1, p - 1) \o SubSeq(sheet, p + 1, Len(sheet))
    /\ shifts' = shifts + 1
    /\ UNCHANGED run_vars

ShiftNext ==
    \/ SetupHeaders
    \/ BatchStart
    \/ JobStart
    \/ FetchAttempt
    \/ UpdateRow
    \/ BatchEnd
    \/ ExternalInsert
    \/ ExternalRemove

ShiftSpec ==
    ShiftInit /\ [][ShiftNext]_vars

(* ----------------------- the single-URL processor ----------------------- *)

\* How many runs of the processor are followed.
MaxRuns == 3

\* The cap of SingleURLInstagramProcessor._clean_caption.
CAPTION_CAP_SINGLE == 200

STR_SESSION_NUMBER ==
    <<"S", "e", "s", "s", "i", "o", "n", " ", "N", "u", "m", "b", "e", "r">>

\* datetime.now().strftime('%H%M%S') of a run.
STR_SESSION ==
    <<"1", "2", "0", "0", "0", "0">>

\* headers of SingleURLInstagramProcessor._setup_headers.
HEADERS_SINGLE ==
    SubSeq(HEADERS_PERSISTENT, 1, 13) \o <<STR_SESSION_NUMBER>>

\* The data dict of SingleURLInstagramProcessor._extract_post_data.
post_data_single(post) ==
    [post_data(post) EXCEPT
        !.caption = clean_caption_cap(post.caption, CAPTION_CAP_SINGLE)]

\* row_data of SingleURLInstagramProcessor._update_sheet_row.
row_data_single(url, data, status, session_num) ==
    IF data # << >> /\ status = "SUCCESS"
    THEN LET d == data[1]
         IN <<url, <<"@">> \o d.account, FormatThousands(d.likes),
              FormatThousands(d.comments), FormatThousands(d.views), d.type,
              d.posted_date, d.caption, Str(d.hashtags), d.location,
              d.last_fetched, STR_SUCCESS_MARK, STR_NOW_IST, session_num>>
    ELSE <<url>> \o Blanks(11) \o <<STR_PROC_FAILED, STR_NOW_IST, session_num>>

\* (None, None) of _find_next_unprocessed_url.
NoneFound ==
    <<0, EMPTY>>

\* Variant that picks the last row that needs processing.
find_next_unprocessed_url_last(rows_read) ==
    LET sel == {r \in DataRowNumbers(rows_read) :
                   needs_processing(rows_read[r])}
    IN IF Len(rows_read) <= 1 \/ sel = {} THEN NoneFound
       ELSE LET r == CHOOSE x \in sel : \A y \in sel : y <= x
            IN <<r, Strip(Cell(rows_read[r], 1))>>

\* _find_next_unprocessed_url, lines 171-190, on the rows read: the first row
\* with an Instagram URL whose status cell lacks the SUCCESS mark (the test is
\* the one of the persistent extractor's _collect_failed_urls).
find_next_unprocessed_url(rows_read) ==
    LET sel == {r \in DataRowNumbers(rows_read) :
                   needs_processing(rows_read[r])}
    IN IF Len(rows_read) <= 1 \/ sel = {} THEN NoneFound
       ELSE LET r == Min(sel)
            IN <<r, Strip(Cell(rows_read[r], 1))>>

\* The row an earlier run of the processor completed.
CompletedRowSingle ==
    row_data_single(URL_POST, <<post_data_single(AnyPost)>>, "SUCCESS",
                    STR_SESSION)

InitRowsSingle ==
    {<<URL_POST>>, <<URL_PADDED>>, <<URL_NOCODE>>, <<URL_FOREIGN>>, << >>,
     CompletedRowSingle}

\* An empty worksheet, or one the processor set up before with at most
\* MaxRows rows.
SingleSheets ==
    {<< >>}
    \cup {<<HEADERS_SINGLE>> \o rows :
             rows \in DistinctSeqsUpTo(InitRowsSingle, MaxRows)}

\* What the processor leaves alone: the variables of the other scripts.
other_vars ==
    <<script, force_refresh, sheet0, pc, batch_attempt, all_data,
      failed_urls, i, attempt, result, batch_successful, total_successful,
      processed_count, failed_count, returned, update_ok, job_fetches,
      job_first, job_uniform, stub_ffs, read_raised, success_writes, call,
      shifts, norm, pace, manual>>

SingleInit ==
    /\ script = "single"
    /\ force_refresh = FALSE
    /\ sheet \in SingleSheets
    /\ sheet0 = sheet
    /\ pc = "start"
    /\ batch_attempt = 0
    /\ all_data = << >>
    /\ failed_urls = << >>
    /\ i = 0
    /\ attempt = 0
    /\ result = NoResult
    /\ batch_successful = 0
    /\ total_successful = 0
    /\ processed_count = 0
    /\ failed_count = 0
    /\ returned = << >>
    /\ update_ok = FALSE
    /\ job_fetches = 0
    /\ job_first = ""
    /\ job_uniform = TRUE
    /\ stub_ffs = TRUE
    /\ read_raised = FALSE
    /\ success_writes = 0
    /\ call = NoCall
    /\ shifts = 0
    /\ single = [NoSingle EXCEPT !.pc = "start", !.run = 1]
    /\ norm = NoNorm
    /\ pace = NoPace
    /\ manual = NoManual

\* __init__ / _initialize_services / _setup_headers (lines 28-96).
SetupHeadersSingle ==
    /\ single.pc = "start"
    /\ IF headers_need_setup(row_values(sheet, 1), HEADERS_SINGLE)
       THEN \E outcome \in {"ok", "clear_raises", "append_raises"} :
               sheet' = sheet_after_setup(sheet, HEADERS_SINGLE, outcome)
       ELSE sheet' = sheet
    /\ single' = [single EXCEPT !.pc = "find"]
    /\ UNCHANGED other_vars

\* process_single_url lines 263-269 with _find_next_unprocessed_url: a read
\* that raises is logged and gives (None, None) like a sheet without work.
FindNextUnprocessed ==
    /\ single.pc = "find"
    /\ \E found \in {NoneFound, find_next_unprocessed_url(sheet)} :
          single' = IF found = NoneFound
                    THEN [single EXCEPT !.pc = "ended",
                                        !.returned = <<FALSE>>]
                    ELSE [single EXCEPT !.pc = "extract",
                                        !.row_num = found[1],
                                        !.url = found[2]]
    /\ UNCHANGED <<sheet, other_vars>>

\* _extract_post_data, lines 118-154: one fetch, no retry.
ExtractSingle ==
    /\ single.pc = "extract"
    /\ IF extract_shortcode(single.url) = EMPTY
       THEN single' = [single EXCEPT
                          !.pc = "update",
                          !.result = [data |-> << >>,
                                      status |-> "INVALID_URL",
                                      retry_count |-> 0]]
       ELSE \E outcome \in {"OK"} \cup FetchFailures :
               IF outcome = "OK"
               THEN \E post \in Posts :
                       single' = [single EXCEPT
                                     !.pc = "update",
                                     !.fetches = single.fetches + 1,
                                     !.result =
                                         [data |-> <<post_data_single(post)>>,
                                          status |-> "SUCCESS",
                                          retry_count |-> 0]]
               ELSE single' = [single EXCEPT
                                  !.pc = "update",
                                  !.fetches = single.fetches + 1,
                                  !.result = [data |-> << >>,
                                              status |-> "EXTRACTION_FAILED",
                                              retry_count |-> 0]]
    /\ UNCHANGED <<sheet, other_vars>>

\* _update_sheet_row (196-246) and the end of process_single_url (277-300):
\* format, then update of A:N; either call may raise, and then the method
\* returns False and so does the run.
UpdateRowSingle ==
    /\ single.pc = "update"
    /\ LET rd == row_data_single(single.url, single.result.data,
                                 single.result.status, STR_SESSION)
       IN \E written \in BOOLEAN :
             IF written
             THEN /\ sheet' = sheet_update(sheet, single.row_num, rd)
                  /\ single' = [single EXCEPT !.pc = "ended",
                                              !.writes = single.writes + 1,
                                              !.returned = <<TRUE>>]
             ELSE /\ sheet' = sheet
                  /\ single' = [single EXCEPT !.pc = "ended",
                                              !.returned = <<FALSE>>]
    /\ UNCHANGED other_vars

\* The next scheduled run of the script (main, lines 302-322): a new process
\* that knows nothing of the run before; prev_row keeps, for the properties,
\* the row the ended run processed.
NextRun ==
    /\ single.pc = "ended"
    /\ single.run < MaxRuns
    /\ single' = [NoSingle EXCEPT
                     !.pc = "start",
                     !.run = single.run + 1,
                     !.prev_row = IF single.returned = <<TRUE>>
                                  THEN single.row_num ELSE 0]
    /\ UNCHANGED <<sheet, other_vars>>

SingleNext ==
    \/ SetupHeadersSingle
    \/ FindNextUnprocessed
    \/ ExtractSingle
    \/ UpdateRowSingle
    \/ NextRun

SingleSpec ==
    SingleInit /\ [][SingleNext]_vars

(* ------------------ pure functions applied to inputs -------------------- *)

\* Longest free part of a caption text of the corpus.
MaxText == 3

\* The cap of RealTimeInstagramExtractor._clean_caption.
CAPTION_CAP_REALTIME == 100

HOST_INSTAGRAM ==
    <<"h", "t", "t", "p", "s", ":", "/", "/", "w", "w", "w", ".", "i", "n",
      "s", "t", "a", "g", "r", "a", "m", ".", "c", "o", "m">>

HOST_FOREIGN ==
    <<"h", "t", "t", "p", "s", ":", "/", "/", "e", "x", "a", "m", "p", "l",
      "e", ".", "c", "o", "m">>

ID_ABC123 ==
    <<"A", "B", "C", "1", "2", "3">>

ID_MIXED ==
    <<"a", "-", "B", "_", "9">>

SUFFIX_IGSH ==
    <<"?", "i", "g", "s", "h", "=", "x", "y", "z">>

SUFFIX_UTM ==
    <<"?", "u", "t", "m", "_", "s", "o", "u", "r", "c", "e", "=", "i", "g",
      "_", "w", "e", "b", "_", "c", "o", "p", "y", "_", "l", "i", "n", "k">>

URL_TRACKED ==
    <<"h", "t", "t", "p", "s", ":", "/", "/", "w", "w", "w", ".", "i", "n",
      "s", "t", "a", "g", "r", "a", "m", ".", "c", "o", "m", "/", "p", "/",
      "A", "B", "C", "1", "2", "3", "/", "?", "i", "g", "s", "h", "=", "x",
      "y", "z">>

CAPTION_PLAIN ==
    <<"h", "e", "l", "l", "o", " ", " ", " ", "w", "o", "r", "l", "d">>

CAPTION_TAGGED ==
    <<"h", "e", "l", "l", "o", " ", " ", " ", "w", "o", "r", "l", "d", " ",
      "#", "a", " ", "#", "b">>

CAPTION_TAGS_ONLY ==
    <<"#", "a", "#", "b", " ", "#", " ", "#", "_", "c">>

\* Tracking query suffixes of shared references; EMPTY for none.
Suffixes ==
    {EMPTY, SUFFIX_IGSH, SUFFIX_UTM}

\* References of the /p/, /reel/ and /tv/ shapes with the id they carry.
\* The professional extractor finds the same id.
ShapedReferences ==
    {[url |-> host \o shape \o id \o tail, expect |-> id,
      expect_professional |-> id] :
        host \in {HOST_INSTAGRAM, HOST_FOREIGN},
        shape \in {STR_P, STR_REEL, STR_TV},
        id \in {ID_ABC123, ID_MIXED},
        tail \in {EMPTY, <<"/">>}}

\* References of the /reels/ shape, which only the professional extractor
\* has a pattern for.
ReelsReferences ==
    {[url |-> HOST_INSTAGRAM \o STR_REELS \o id \o tail, expect |-> EMPTY,
      expect_professional |-> id] :
        id \in {ID_ABC123, ID_MIXED}, tail \in {EMPTY, <<"/">>}}

\* References that hold two shapes: the pattern earlier in the list gives
\* the id, wherever it stands in the string.
TwoShapeReferences ==
    {[url |-> HOST_INSTAGRAM \o STR_TV \o ID_MIXED \o STR_REEL \o ID_ABC123,
      expect |-> ID_ABC123, expect_professional |-> ID_ABC123],
     [url |-> HOST_INSTAGRAM \o STR_REEL \o ID_MIXED \o STR_P \o ID_ABC123,
      expect |-> ID_ABC123, expect_professional |-> ID_ABC123],
     [url |-> HOST_INSTAGRAM \o STR_TV \o ID_ABC123 \o STR_P \o ID_MIXED,
      expect |-> ID_MIXED, expect_professional |-> ID_MIXED]}

\* Strings without any of the shapes.
MalformedReferences ==
    {[url |-> u, expect |-> EMPTY, expect_professional |-> EMPTY] :
        u \in {EMPTY,
               <<" ", " ">>,
               <<"n", "o", "t", " ", "a", " ", "u", "r", "l">>,
               HOST_INSTAGRAM,
               HOST_INSTAGRAM \o <<"/">>,
               URL_NOCODE,
               HOST_INSTAGRAM \o <<"/", "n", "a", "s", "a", "/">>,
               HOST_INSTAGRAM \o STR_P,
               HOST_INSTAGRAM \o <<"/", "p">>,
               HOST_INSTAGRAM \o <<"/", "P", "/">> \o ID_ABC123,
               HOST_INSTAGRAM \o <<"/", "p", "/", "/">> \o ID_ABC123,
               HOST_INSTAGRAM \o <<"/", "p", "o", "s", "t", "/">> \o ID_ABC123}}

ParseInputs ==
    {[NoNorm EXCEPT !.pc = "parse", !.url = c.url, !.suffix = sfx,
                    !.expect = c.expect,
                    !.expect_professional = c.expect_professional] :
        c \in ShapedReferences \cup ReelsReferences \cup TwoShapeReferences
              \cup MalformedReferences,
        sfx \in Suffixes}

\* Posts the remote source returns for a job: without and with tag markers
\* in the caption, without caption, photo and video.
ScenarioPosts ==
    {[AnyPost EXCEPT !.caption = c, !.is_video = v,
                     !.video_view_count = IF v THEN 789 ELSE 0] :
        c \in {CAPTION_PLAIN, CAPTION_TAGGED, CAPTION_TAGS_ONLY, EMPTY},
        v \in BOOLEAN}

RowInputs ==
    {[NoNorm EXCEPT !.pc = "row", !.url = u, !.post = p] :
        u \in {URL_FOREIGN, URL_TRACKED, URL_POST}, p \in ScenarioPosts}

\* n characters without whitespace.
Pad(n) ==
    [k \in 1..n |-> "x"]

\* Caption texts: a run of n characters followed by every text of up to
\* MaxText letters, blanks and line breaks; n around the caps.
CaptionTexts ==
    {Pad(n) \o t :
        n \in {0, CAPTION_CAP_REALTIME - 2, CAPTION_CAP_REALTIME,
               CAPTION_CAP - 2, CAPTION_CAP,
               CAPTION_CAP_SINGLE - 2, CAPTION_CAP_SINGLE},
        t \in UNION {[1..k -> {"a", " ", "\n"}] : k \in 0..MaxText}}

CleanInputs ==
    {[NoNorm EXCEPT !.pc = "clean", !.text = t, !.cap = c] :
        t \in CaptionTexts,
        c \in {CAPTION_CAP_REALTIME, CAPTION_CAP, CAPTION_CAP_SINGLE}}

NormInit ==
    /\ script = "persistent"
    /\ force_refresh = FALSE
    /\ sheet = << >>
    /\ sheet0 = sheet
    /\ pc = "start"
    /\ batch_attempt = 0
    /\ all_data = << >>
    /\ failed_urls = << >>
    /\ i = 0
    /\ attempt = 0
    /\ result = NoResult
    /\ batch_successful = 0
    /\ total_successful = 0
    /\ processed_count = 0
    /\ failed_count = 0
    /\ returned = << >>
    /\ update_ok = FALSE
    /\ job_fetches = 0
    /\ job_first = ""
    /\ job_uniform = TRUE
    /\ stub_ffs = TRUE
    /\ read_raised = FALSE
    /\ success_writes = 0
    /\ call = NoCall
    /\ shifts = 0
    /\ single = NoSingle
    /\ norm \in ParseInputs \cup RowInputs \cup CleanInputs
    /\ pace = NoPace
    /\ manual = NoManual

\* What an application of a pure function leaves alone.
norm_frame ==
    <<script, force_refresh, sheet, sheet0, pc, batch_attempt, all_data,
      failed_urls, i, attempt, result, batch_successful, total_successful,
      processed_count, failed_count, returned, update_ok, job_fetches,
      job_first, job_uniform, stub_ffs, read_raised, success_writes, call,
      shifts, single, pace, manual>>

\* _extract_shortcode of the persistent and of the professional extractor,
\* each on the reference as given and with the tracking suffix appended.
ParseReference ==
    /\ norm.pc = "parse"
    /\ norm' = [norm EXCEPT
                  !.pc = "parsed",
                  !.out = [plain |-> extract_shortcode(norm.url),
                           suffixed |->
                               extract_shortcode(norm.url \o norm.suffix),
                           professional |->
                               extract_shortcode_professional(norm.url),
                           professional_suffixed |->
                               extract_shortcode_professional(
                                   norm.url \o norm.suffix)]]
    /\ UNCHANGED norm_frame

\* One job of the persistent extractor from the stored row to the row
\* written: _collect_failed_urls selects the row or not; the id parsed from
\* the stripped reference is fetched; the data dict of lines 162-183 is
\* built from the post and _update_sheet_row makes the row of it.
BuildRow ==
    /\ norm.pc = "row"
    /\ LET selected == needs_processing(<<norm.url>>)
           url == Strip(norm.url)
           data == post_data(norm.post)
       IN norm' = [norm EXCEPT
                     !.pc = "built",
                     !.out = [selected |-> selected,
                              shortcode |-> extract_shortcode(url),
                              data |-> data,
                              row |-> IF selected
                                      THEN row_data_persistent(
                                               url, <<data>>, "SUCCESS", 1)
                                      ELSE << >>]]
    /\ UNCHANGED norm_frame

\* _clean_caption with the cap of the script.
CleanCaption ==
    /\ norm.pc = "clean"
    /\ norm' = [norm EXCEPT !.pc = "cleaned",
                            !.out = clean_caption_cap(norm.text, norm.cap)]
    /\ UNCHANGED norm_frame

NormNext ==
    \/ ParseReference
    \/ BuildRow
    \/ CleanCaption

NormSpec ==
    NormInit /\ [][NormNext]_vars

(* ---------------- one batch of the persistent extractor ----------------- *)

\* Values of random.uniform(2, 4), the sleep between two jobs: both ends and
\* the middle.
PacingDelays ==
    {2, 3, 4}

\* Variant that sleeps after every job, the last one included.
paces_after_every_job(k, n) ==
    k <= n

\* The test of lines 314-315: the sleep between URLs follows every job of
\* the batch but the last.
paces_after(k, n) ==
    k < n

\* What the batch loop leaves alone in PaceSpec.
pace_frame ==
    <<script, force_refresh, sheet0, pc, batch_attempt, all_data,
      failed_urls, i, attempt, result, batch_successful, total_successful,
      processed_count, failed_count, returned, update_ok, job_fetches,
      job_first, job_uniform, stub_ffs, read_raised, success_writes, call,
      shifts, single, norm, manual>>

\* The worksheet after the header setup, with at most MaxRows rows.
PaceInit ==
    /\ script = "persistent"
    /\ force_refresh = FALSE
    /\ sheet \in {<<HEADERS_PERSISTENT>> \o rows :
                    rows \in DistinctSeqsUpTo(InitRows("persistent"), MaxRows)}
    /\ sheet0 = sheet
    /\ pc = "start"
    /\ batch_attempt = 0
    /\ all_data = << >>
    /\ failed_urls = << >>
    /\ i = 0
    /\ attempt = 0
    /\ result = NoResult
    /\ batch_successful = 0
    /\ total_successful = 0
    /\ processed_count = 0
    /\ failed_count = 0
    /\ returned = << >>
    /\ update_ok = FALSE
    /\ job_fetches = 0
    /\ job_first = ""
    /\ job_uniform = TRUE
    /\ stub_ffs = TRUE
    /\ read_raised = FALSE
    /\ success_writes = 0
    /\ call = NoCall
    /\ shifts = 0
    /\ single = NoSingle
    /\ norm = NoNorm
    /\ manual = NoManual
    /\ pace = [NoPace EXCEPT !.pc = "read"]

\* Lines 282-298: the read and the selection of the batch's jobs.
PaceRead ==
    /\ pace.pc = "read"
    /\ \/ pace' = [pace EXCEPT !.pc = "done"]      \* get_all_values raises
       \/ LET jobs == collect_failed_urls(sheet)
          IN pace' = IF Len(sheet) <= 1 \/ jobs = << >>
                     THEN [pace EXCEPT !.pc = "done"]
                     ELSE [pace EXCEPT !.pc = "extract", !.jobs = jobs,
                                       !.i = 1]
    /\ UNCHANGED <<sheet, pace_frame>>

\* Line 304: the job's call of _extract_post_data_with_retries, from its
\* start to its return, with the retry delays it sleeps inside: it returns
\* after the first attempt or after a later one, at most the last.
PaceExtract ==
    /\ pace.pc = "extract"
    /\ LET row_index == pace.jobs[pace.i][1]
           url == pace.jobs[pace.i][2]
           started == Append(pace.events, <<"start", row_index>>)
       IN IF extract_shortcode(url) = EMPTY
          THEN pace' = [pace EXCEPT
                          !.pc = "update", !.events = started,
                          !.result = [data |-> << >>,
                                      status |-> "INVALID_URL",
                                      retry_count |-> 0]]
          ELSE \E attempts \in {1, max_retries_per_url},
                  status \in {"SUCCESS", "ALL_RETRIES_FAILED"} :
                  /\ status = "ALL_RETRIES_FAILED"
                     => attempts = max_retries_per_url
                  /\ pace' = [pace EXCEPT
                                !.pc = "update", !.events = started,
                                !.result =
                                    [data |-> IF status = "SUCCESS"
                                              THEN <<post_data(AnyPost)>>
                                              ELSE << >>,
                                     status |-> status,
                                     retry_count |-> attempts]]
    /\ UNCHANGED <<sheet, pace_frame>>

\* Lines 306-311: _update_sheet_row writes the job's row or returns False.
\* The job is over; the sleep of lines 314-315 follows unless it was the last.
PaceUpdate ==
    /\ pace.pc = "update"
    /\ LET row_index == pace.jobs[pace.i][1]
           url == pace.jobs[pace.i][2]
           rd == row_data_persistent(url, pace.result.data,
                                     pace.result.status,
                                     pace.result.retry_count)
       IN /\ \E written \in BOOLEAN :
                sheet' = IF written THEN sheet_update(sheet, row_index, rd)
                         ELSE sheet
          /\ pace' = [pace EXCEPT
                        !.pc = IF paces_after(pace.i, Len(pace.jobs))
                               THEN "sleep"
                               ELSE IF pace.i < Len(pace.jobs)
                               THEN "extract" ELSE "done",
                        !.i = IF paces_after(pace.i, Len(pace.jobs))
                              THEN pace.i ELSE pace.i + 1,
                        !.events = Append(pace.events, <<"end", row_index>>)]
    /\ UNCHANGED pace_frame

\* Line 315: time.sleep(random.uniform(2, 4)), then the next job of the
\* for loop, or the end of the batch.
PaceSleep ==
    /\ pace.pc = "sleep"
    /\ \E seconds \in PacingDelays :
          pace' = [pace EXCEPT
                     !.pc = IF pace.i < Len(pace.jobs) THEN "extract"
                            ELSE "done",
                     !.i = pace.i + 1,
                     !.events = Append(pace.events, <<"sleep", seconds>>)]
    /\ UNCHANGED <<sheet, pace_frame>>

PaceNext ==
    \/ PaceRead
    \/ PaceExtract
    \/ PaceUpdate
    \/ PaceSleep

PaceSpec ==
    PaceInit /\ [][PaceNext]_vars

(* -------------------------- the manual processor ----------------------- *)

\* The cap of ManualInstagramProcessor._clean_caption.
CAPTION_CAP_MANUAL == 200

HEADERS_MANUAL ==
    <<<<"A", "c", "t", "i", "o", "n">>,
      <<"I", "n", "s", "t", "a", "g", "r", "a", "m", " ", "U", "R", "L">>,
      <<"A", "c", "c", "o", "u", "n", "t", " ", "H", "a", "n", "d", "l", "e">>,
      <<"L", "i", "k", "e", "s", " ", "C", "o", "u", "n", "t">>,
      <<"C", "o", "m", "m", "e", "n", "t", "s", " ", "C", "o", "u", "n", "t">>,
      <<"V", "i", "e", "w", "s", " ", "C", "o", "u", "n", "t">>,
      <<"C", "o", "n", "t", "e", "n", "t", " ", "T", "y", "p", "e">>,
      <<"P", "o", "s", "t", "e", "d", " ", "D", "a", "t", "e">>,
      <<"C", "a", "p", "t", "i", "o", "n", " ", "T", "e", "x", "t">>,
      <<"H", "a", "s", "h", "t", "a", "g", "s", " ", "C", "o", "u", "n", "t">>,
      <<"L", "o", "c", "a", "t", "i", "o", "n">>,
      <<"L", "a", "s", "t", " ", "F", "e", "t", "c", "h", "e", "d">>,
      <<"P", "r", "o", "c", "e", "s", "s", "i", "n", "g", " ", "S", "t", "a", "t", "u", "s">>,
      <<"L", "a", "s", "t", " ", "U", "p", "d", "a", "t", "e", "d">>>>

STR_PROCESS ==
    <<"P", "R", "O", "C", "E", "S", "S">>

STR_process_lower ==
    <<"p", "r", "o", "c", "e", "s", "s">>

STR_COMPLETED ==
    <<"C", "O", "M", "P", "L", "E", "T", "E", "D">>

STR_FAILED ==
    <<"F", "A", "I", "L", "E", "D">>

STR_MANUAL_SUCCESS ==
    <<"S", "u", "c", "c", "e", "s", "s">>

STR_INVALID_URL ==
    <<"I", "n", "v", "a", "l", "i", "d", " ", "U", "R", "L">>

STR_INVALID_URL_FORMAT ==
    <<"I", "n", "v", "a", "l", "i", "d", " ", "U", "R", "L", " ", "f", "o",
      "r", "m", "a", "t">>

STR_SESSION_FAILED ==
    <<"S", "e", "s", "s", "i", "o", "n", " ", "c", "r", "e", "a", "t", "i",
      "o", "n", " ", "f", "a", "i", "l", "e", "d">>

STR_PRIVATE_CONTENT ==
    <<"P", "r", "i", "v", "a", "t", "e", " ", "c", "o", "n", "t", "e", "n",
      "t">>

STR_EXTRACTION_FAILED ==
    <<"E", "x", "t", "r", "a", "c", "t", "i", "o", "n", " ", "f", "a", "i",
      "l", "e", "d">>

STR_VIDEO_MANUAL ==
    <<"V", "i", "d", "e", "o">>

STR_NOW_MANUAL ==
    <<"0", "1", "-", "0", "8", "-", "2", "0", "2", "5", " ", "1", "2", ":",
      "0", "0", ":", "0", "0">>

STR_POSTED_MANUAL ==
    <<"3", "1", "-", "0", "7", "-", "2", "0", "2", "5", " ", "0", "9", ":",
      "3", "0">>

LowerLetters ==
    <<"a", "b", "c", "d", "e", "f", "g", "h", "i", "j", "k", "l", "m", "n",
      "o", "p", "q", "r", "s", "t", "u", "v", "w", "x", "y", "z">>

UpperLetters ==
    <<"A", "B", "C", "D", "E", "F", "G", "H", "I", "J", "K", "L", "M", "N",
      "O", "P", "Q", "R", "S", "T", "U", "V", "W", "X", "Y", "Z">>

\* str.upper()
Upper(s) ==
    [k \in 1..Len(s) |->
        IF \E n \in 1..26 : LowerLetters[n] = s[k]
        THEN UpperLetters[CHOOSE n \in 1..26 : LowerLetters[n] = s[k]]
        ELSE s[k]]

\* str.isdigit() for the texts of the model.
IsDigit(s) ==
    s # EMPTY /\ \A k \in 1..Len(s) : s[k] \in Digits

\* int(s) for a text of digits.
RECURSIVE IntOf(_)
IntOf(s) ==
    IF s = EMPTY THEN 0
    ELSE 10 * IntOf(SubSeq(s, 1, Len(s) - 1))
         + (CHOOSE d \in 0..9 : DigitChar(d) = s[Len(s)])

\* Values of the TARGET_ROW setting: not set, rows 0 to 3, a row past the
\* sheet, and a text that is no number.
TargetRows ==
    {EMPTY, <<"0">>, <<"1">>, <<"2">>, <<"3">>, <<"1", "2">>, <<"x">>}

\* The data dict of ManualInstagramProcessor._extract_instagram_data.
post_data_manual(post) ==
    [post_data(post) EXCEPT
        !.type = IF post.is_video THEN STR_VIDEO_MANUAL ELSE STR_PHOTO,
        !.posted_date = IF post.has_date THEN STR_POSTED_MANUAL
                        ELSE STR_UNKNOWN,
        !.caption = clean_caption_cap(post.caption, CAPTION_CAP_MANUAL),
        !.last_fetched = STR_NOW_MANUAL]

\* row_data of ManualInstagramProcessor._update_sheet_professionally.
row_data_manual(url, data, status) ==
    IF data # << >> /\ status = STR_MANUAL_SUCCESS
    THEN LET d == data[1]
         IN <<STR_COMPLETED, url, d.account, FormatThousands(d.likes),
              FormatThousands(d.comments), FormatThousands(d.views), d.type,
              d.posted_date, d.caption, Str(d.hashtags), d.location,
              d.last_fetched, STR_MANUAL_SUCCESS, STR_NOW_MANUAL>>
    ELSE <<STR_FAILED, url>> \o Blanks(9)
         \o <<STR_NOW_MANUAL, status, STR_NOW_MANUAL>>

\* _find_requested_row, lines 228-241: the row TARGET_ROW names, or the first
\* row with PROCESS in its action cell; 0 for None.
find_requested_row(target_row, rows_read) ==
    IF target_row # EMPTY /\ IsDigit(target_row) THEN IntOf(target_row)
    ELSE LET flagged == {r \in DataRowNumbers(rows_read) :
                            /\ Len(rows_read[r]) > 0
                            /\ rows_read[r][1] # EMPTY
                            /\ Contains(Upper(rows_read[r][1]), STR_PROCESS)}
         IN IF flagged = {} THEN 0 ELSE Min(flagged)

\* The row an earlier run of the processor completed.
CompletedRowManual ==
    row_data_manual(URL_POST, <<post_data_manual(AnyPost)>>,
                    STR_MANUAL_SUCCESS)

\* Rows of the sheet: requests with a post, without a reference, with a
\* reference of another site under a lower-case flag, with a page that has
\* no shortcode; a row that is not requested; a completed row.
InitRowsManual ==
    {<<STR_PROCESS, URL_POST>>, <<STR_PROCESS>>,
     <<STR_process_lower, URL_FOREIGN>>, <<STR_PROCESS, URL_NOCODE>>,
     <<EMPTY, URL_PADDED>>, CompletedRowManual}

ManualSheets ==
    {<< >>}
    \cup {<<HEADERS_MANUAL>> \o rows :
             rows \in DistinctSeqsUpTo(InitRowsManual, MaxRows)}

\* What the manual processor leaves alone.
manual_frame ==
    <<script, force_refresh, sheet0, pc, batch_attempt, all_data,
      failed_urls, i, attempt, result, batch_successful, total_successful,
      processed_count, failed_count, returned, update_ok, job_fetches,
      job_first, job_uniform, stub_ffs, read_raised, success_writes, call,
      shifts, single, norm, pace>>

ManualInit ==
    /\ script = "manual"
    /\ force_refresh = FALSE
    /\ sheet \in ManualSheets
    /\ sheet0 = sheet
    /\ pc = "start"
    /\ batch_attempt = 0
    /\ all_data = << >>
    /\ failed_urls = << >>
    /\ i = 0
    /\ attempt = 0
    /\ result = NoResult
    /\ batch_successful = 0
    /\ total_successful = 0
    /\ processed_count = 0
    /\ failed_count = 0
    /\ returned = << >>
    /\ update_ok = FALSE
    /\ job_fetches = 0
    /\ job_first = ""
    /\ job_uniform = TRUE
    /\ stub_ffs = TRUE
    /\ read_raised = FALSE
    /\ success_writes = 0
    /\ call = NoCall
    /\ shifts = 0
    /\ single = NoSingle
    /\ norm = NoNorm
    /\ pace = NoPace
    /\ \E target_row \in TargetRows :
          manual = [NoManual EXCEPT !.pc = "start", !.run = 1,
                                    !.target_row = target_row]

\* __init__ / _initialize_google_sheets / _setup_professional_headers
\* (lines 31-91).
SetupHeadersManual ==
    /\ manual.pc = "start"
    /\ IF headers_need_setup(row_values(sheet, 1), HEADERS_MANUAL)
       THEN \E outcome \in {"ok", "clear_raises", "append_raises"} :
               sheet' = sheet_after_setup(sheet, HEADERS_MANUAL, outcome)
       ELSE sheet' = sheet
    /\ manual' = [manual EXCEPT !.pc = "find"]
    /\ UNCHANGED manual_frame

\* process_manual_request lines 311-316 with _find_requested_row.  With a
\* TARGET_ROW of digits nothing is read; otherwise get_all_values may raise,
\* which is logged and gives None.
FindRequestedRow ==
    /\ manual.pc = "find"
    /\ \E read_raises \in BOOLEAN :
          /\ read_raises => ~IsDigit(manual.target_row)
          /\ LET row_num == IF read_raises THEN 0
                            ELSE find_requested_row(manual.target_row, sheet)
             IN manual' = IF row_num = 0
                          THEN [manual EXCEPT !.pc = "ended",
                                              !.raised = read_raises,
                                              !.returned = <<FALSE>>]
                          ELSE [manual EXCEPT
                                   !.pc = "row", !.row_num = row_num,
                                   !.by_flag = ~IsDigit(manual.target_row)]
    /\ UNCHANGED <<sheet, manual_frame>>

\* Lines 318-330: the row's values are read; without a reference the run
\* returns False; a reference that is no Instagram URL is written back as
\* 'Invalid URL'.
ReadRequestedRow ==
    /\ manual.pc = "row"
    /\ \/ manual' = [manual EXCEPT !.pc = "ended", !.raised = TRUE,
                                   !.returned = <<FALSE>>]  \* row_values raises
       \/ LET row_data == row_values(sheet, manual.row_num)
              url == Strip(Cell(row_data, 2))
          IN manual' =
                IF Len(row_data) < 2 \/ Cell(row_data, 2) = EMPTY
                THEN [manual EXCEPT !.pc = "ended", !.returned = <<FALSE>>]
                ELSE IF ~StartsWith(url, STR_http)
                        \/ ~Contains(url, STR_instagram_com)
                THEN [manual EXCEPT
                         !.pc = "update", !.url = url,
                         !.result = [data |-> << >>,
                                     status |-> STR_INVALID_URL,
                                     retry_count |-> 0]]
                ELSE [manual EXCEPT !.pc = "extract", !.url = url]
    /\ UNCHANGED <<sheet, manual_frame>>

\* _extract_instagram_data, lines 149-194.
ExtractManual ==
    /\ manual.pc = "extract"
    /\ \E data \in {<<post_data_manual(post)>> : post \in Posts} \cup {<< >>},
          failure \in {STR_SESSION_FAILED, STR_PRIVATE_CONTENT,
                       STR_EXTRACTION_FAILED} :
          LET status == IF extract_shortcode(manual.url) = EMPTY
                        THEN STR_INVALID_URL_FORMAT
                        ELSE IF data # << >> THEN STR_MANUAL_SUCCESS
                        ELSE failure
          IN manual' = [manual EXCEPT
                          !.pc = "update",
                          !.result =
                              [data |-> IF status = STR_MANUAL_SUCCESS
                                        THEN data ELSE << >>,
                               status |-> status, retry_count |-> 0]]
    /\ UNCHANGED <<sheet, manual_frame>>

\* _update_sheet_professionally (246-304) and the end of
\* process_manual_request (330-345): worksheet.update, then
\* worksheet.format.  When update raises nothing is written; when format
\* raises the row is written and the method still returns False.
UpdateSheetManual ==
    /\ manual.pc = "update"
    /\ LET rd == row_data_manual(manual.url, manual.result.data,
                                 manual.result.status)
       IN \E outcome \in {"ok", "update_raises", "format_raises"} :
             /\ sheet' = IF outcome = "update_raises" THEN sheet
                         ELSE sheet_update(sheet, manual.row_num, rd)
             /\ manual' = [manual EXCEPT
                             !.pc = "ended",
                             !.raised = outcome # "ok",
                             !.written = IF outcome = "update_raises"
                                         THEN manual.written
                                         ELSE manual.written + 1,
                             !.returned =
                                 <<outcome = "ok"
                                   /\ manual.result.status
                                      = STR_MANUAL_SUCCESS>>]
    /\ UNCHANGED manual_frame

\* The next run of the script (main, lines 351-376) with the same setting.
NextRunManual ==
    /\ manual.pc = "ended"
    /\ manual.run < MaxRuns
    /\ manual' = [NoManual EXCEPT !.pc = "start",
                                  !.run = manual.run + 1,
                                  !.target_row = manual.target_row,
                                  !.prev_row = IF manual.by_flag
                                               THEN manual.row_num ELSE 0]
    /\ UNCHANGED <<sheet, manual_frame>>

ManualNext ==
    \/ SetupHeadersManual
    \/ FindRequestedRow
    \/ ReadRequestedRow
    \/ ExtractManual
    \/ UpdateSheetManual
    \/ NextRunManual

ManualSpec ==
    ManualInit /\ [][ManualNext]_vars

(* ------------------------------ properties ------------------------------ *)

\* C1: with a fetcher that fails every attempt with a TRANSIENT error, a job
\* of the persistent retry loop is attempted exactly max_retries_per_url
\* times: while fewer attempts have been made the loop is still running, and
\* the loop ends after the K-th failure with ALL_RETRIES_FAILED.
C1_RetryCeiling ==
    (/\ script = "persistent"
     /\ job_first = "ConnectionException"
     /\ job_uniform
     /\ result.status # "SUCCESS")
    => /\ pc = "attempt" => /\ job_fetches = attempt
                            /\ job_fetches < max_retries_per_url
       /\ pc = "update" => /\ job_fetches = max_retries_per_url
                           /\ result.status = "ALL_RETRIES_FAILED"
       /\ pc \in {"attempt", "update"}

\* A job whose attempts all failed with a TRANSIENT error has left the loop.
C1_Witness ==
    /\ script = "persistent"
    /\ pc = "update"
    /\ job_first = "ConnectionException"
    /\ job_uniform
    /\ result.status # "SUCCESS"
    /\ job_fetches > 1

\* Row is a job: it has a reference.
HasReference(row) ==
    Strip(Cell(row, 1)) # EMPTY

\* The row numbers the current batch selected.
SelectedRows ==
    {failed_urls[k][1] : k \in 1..Len(failed_urls)}

FreshJobList(sh) ==
    /\ ~headers_need_setup(row_values(sh, 1), HEADERS_PERSISTENT)
    /\ \A r \in DataRowNumbers(sh) :
          HasReference(sh[r]) =>
             /\ is_instagram_url_row(sh[r])
             /\ ~IsSuccessRow("persistent", sh[r])
             /\ extract_shortcode(Cell(sh[r], 1)) # EMPTY

JobCount(sh) ==
    Cardinality({r \in DataRowNumbers(sh) : HasReference(sh[r])})

\* C3: a persistent run over a fresh job list in which every job's fetch
\* fails on attempts 1 and 2 and succeeds on attempt 3 (and the sheet service
\* works) ends with every job row SUCCESS and returns the number of jobs.
C3_Convergence ==
    (/\ script = "persistent"
     /\ pc = "done"
     /\ stub_ffs
     /\ FreshJobList(sheet0))
    => /\ Len(sheet) = Len(sheet0)
       /\ \A r \in DataRowNumbers(sheet) :
             HasReference(sheet[r]) => IsSuccessRow("persistent", sheet[r])
       /\ returned = <<JobCount(sheet0)>>

\* Such a run over two jobs has returned.
C3_Witness ==
    /\ script = "persistent"
    /\ pc = "done"
    /\ stub_ffs
    /\ FreshJobList(sheet0)
    /\ JobCount(sheet0) >= 2

\* C4 (as stated): process_urls_persistently returns only when every
\* Instagram URL row (with a shortcode) has status SUCCESS.
C4_NeverGivesUp ==
    (script = "persistent" /\ pc = "done")
    => \A r \in DataRowNumbers(sheet) :
          (/\ is_instagram_url_row(sheet[r])
           /\ extract_shortcode(Cell(sheet[r], 1)) # EMPTY)
          => IsSuccessRow("persistent", sheet[r])

\* No fetch attempt is made for a row that is SUCCESS for the script.
NoFetchForSuccessRow ==
    (pc' = "update" /\ job_fetches' > 0)
    => ~IsSuccessRow(script, sheet[failed_urls'[i'][1]])

\* C5 (as stated): in a run without forced refresh (of any script), a row
\* that is SUCCESS is not fetched and none of its cells changes.
C5_SuccessRowsUntouched ==
    [][(pc # "start" /\ ~force_refresh)
       => /\ sheet' = sheet \/ \A r \in DataRowNumbers(sheet) :
                IsSuccessRow(script, sheet[r])
                => r <= Len(sheet') /\ sheet'[r] = sheet[r]
          /\ NoFetchForSuccessRow]_vars

\* C5 (amended): in a run of the persistent extractor a SUCCESS row is not
\* fetched and none of its cells changes; in a run of the real-time extractor
\* without FORCE_REFRESH a completed row is not fetched and keeps its cells
\* A to L.
C5_SuccessRowsSkipped ==
    [][pc # "start"
       => /\ script = "persistent"
             => /\ sheet' = sheet \/ \A r \in DataRowNumbers(sheet) :
                      IsSuccessRow(script, sheet[r])
                      => r <= Len(sheet') /\ sheet'[r] = sheet[r]
                /\ NoFetchForSuccessRow
          /\ (script = "realtime" /\ ~force_refresh)
             => /\ sheet' = sheet \/ \A r \in DataRowNumbers(sheet) :
                      IsSuccessRow(script, sheet[r])
                      => /\ r <= Len(sheet')
                         /\ \A k \in 1..WIDTH_A_L :
                               Cell(sheet'[r], k) = Cell(sheet[r], k)
                /\ NoFetchForSuccessRow]_vars

\* A persistent run has written another row of a sheet that had a SUCCESS row.
C5_Witness ==
    /\ script = "persistent"
    /\ pc = "done"
    /\ Len(sheet) = Len(sheet0)
    /\ \E r \in DataRowNumbers(sheet0) :
          IsSuccessRow(script, sheet0[r]) /\ sheet[r] = sheet0[r]
    /\ \E r \in DataRowNumbers(sheet0) : sheet[r] # sheet0[r]

\* The attribute cells of a row (columns B to K), as far as the row reaches.
AttributeCells(row) ==
    SubSeq(row, 2, IF Len(row) < 11 THEN Len(row) ELSE 11)

\* The attribute cells of a row when all of them are empty.
BlankCells ==
    {Blanks(n) : n \in 0..10}

\* Column H holds the cleaned caption, the one attribute text that can be
\* empty in a fetched record (a caption of blanks only is cleaned to '').
CAPTION_COLUMN ==
    8

\* C6: every row below the header has a SUCCESS status with its attribute
\* cells populated (the account name, the counts, the type, the dates, the
\* hashtag count and the location are filled in, next to the caption text),
\* or another status with all attribute cells empty.
C6_StatusAttributes ==
    \A r \in DataRowNumbers(sheet) :
       IF IsSuccessRow(script, sheet[r])
       THEN \A k \in 2..11 :
               k # CAPTION_COLUMN => Cell(sheet[r], k) # EMPTY
       ELSE AttributeCells(sheet[r]) \in BlankCells

\* A row that was SUCCESS has been rewritten with a failure.
C6_Witness ==
    /\ Len(sheet) = Len(sheet0)
    /\ \E r \in DataRowNumbers(sheet0) :
          /\ IsSuccessRow(script, sheet0[r])
          /\ ~IsSuccessRow(script, sheet[r])
    /\ \E r \in DataRowNumbers(sheet0) :
          /\ ~IsSuccessRow(script, sheet0[r])
          /\ IsSuccessRow(script, sheet[r])

\* C7 (as stated): the rows selected from a read (seen when the loop over
\* them is at a job) are exactly the rows with a
\* reference whose status is not SUCCESS, or all rows with a reference under
\* forced refresh (persistent and real-time extractors).
C7_PendingSet ==
    (script \in {"persistent", "realtime"} /\ pc = "job")
    => SelectedRows =
          {r \in DataRowNumbers(all_data) :
              /\ HasReference(all_data[r])
              /\ force_refresh \/ ~IsSuccessRow(script, all_data[r])}

\* C7 (amended): the persistent extractor selects exactly the rows whose
\* stripped reference starts with http and contains instagram.com and whose
\* status cell does not contain the success mark; it has no forced refresh.
\* The real-time extractor selects the rows with a reference that are not
\* completed, or all rows with a reference under FORCE_REFRESH.  The rows
\* are selected in ascending row order, each with its stripped reference.
C7_PendingSetEligible ==
    (script \in {"persistent", "realtime"} /\ pc = "job")
    => /\ script = "persistent" =>
             SelectedRows =
                {r \in 2..Len(all_data) :
                    LET u == Strip(Cell(all_data[r], 1))
                    IN /\ u # EMPTY
                       /\ StartsWith(u, STR_http)
                       /\ Contains(u, STR_instagram_com)
                       /\ ~Contains(Cell(all_data[r], 12), STR_SUCCESS_MARK)}
       /\ script = "realtime" =>
             SelectedRows =
                {r \in 2..Len(all_data) :
                    /\ Strip(Cell(all_data[r], 1)) # EMPTY
                    /\ \/ force_refresh
                       \/ ~Contains(Cell(all_data[r], 12), STR_FRESH_DATA)}
       /\ \A k \in 1..Len(failed_urls) :
             /\ failed_urls[k][2] = Strip(Cell(all_data[failed_urls[k][1]], 1))
             /\ \A l \in 1..Len(failed_urls) :
                   k < l => failed_urls[k][1] < failed_urls[l][1]

\* A persistent batch selected a row and left out a pending row whose
\* reference is not an Instagram URL.
C7_Witness ==
    /\ script = "persistent"
    /\ pc = "job"
    /\ \E r \in DataRowNumbers(all_data) :
          /\ HasReference(all_data[r])
          /\ ~is_instagram_url_row(all_data[r])
          /\ r \notin SelectedRows

\* C8 (as stated): a job of the persistent extractor whose reference has no
\* shortcode is not fetched, keeps its attempt count, has its row written
\* with the failure status in the Processing Status cell, and the loop goes
\* on with the next job.
C8_InvalidRowMarked ==
    [][(script = "persistent" /\ pc = "update"
        /\ result.status = "INVALID_URL")
       => /\ job_fetches = 0
          /\ result.retry_count = 0
          /\ pc' \in {"job", "batch_end"}
          /\ update_ok' =>
                Cell(sheet'[failed_urls[i][1]], 12) = STR_PROC_FAILED]_vars

\* C9 (as stated): every job row the sheet held before the script started
\* is still there, with its reference.
C9_RowsNeverRemoved ==
    \A r \in DataRowNumbers(sheet0) :
       HasReference(sheet0[r])
       => /\ r <= Len(sheet)
          /\ Strip(Cell(sheet[r], 1)) = Strip(Cell(sheet0[r], 1))

\* C10 (as stated): a row update leaves the reference cell of every row as it
\* was read.
C10_ReferenceImmutable ==
    [][pc = "update"
       => \A r \in DataRowNumbers(sheet) :
             Cell(sheet'[r], 1) = Cell(sheet[r], 1)]_vars

\* C10 (amended): a row update writes into the reference cell of its row the
\* reference read from it with the surrounding whitespace stripped, and
\* leaves the reference cells of all other rows as they were.
C10_ReferenceStripped ==
    [][pc = "update"
       => \A r \in DataRowNumbers(sheet) :
             IF r = failed_urls[i][1] /\ (update_ok' \/ sheet'[r] # sheet[r])
             THEN Cell(sheet'[r], 1) = Strip(Cell(sheet[r], 1))
             ELSE Cell(sheet'[r], 1) = Cell(sheet[r], 1)]_vars

\* A row whose reference had surrounding blanks has been written.
C10_Witness ==
    /\ Len(sheet) = Len(sheet0)
    /\ \E r \in DataRowNumbers(sheet0) :
          /\ Cell(sheet0[r], 1) = URL_PADDED
          /\ Cell(sheet[r], 1) = URL_POST
          /\ IsSuccessRow(script, sheet[r])

\* The row of the sheet the job at hand belongs to.
CurrentRow ==
    failed_urls[i][1]

\* The row the script builds from the outcome it holds for the job at hand.
OutcomeRow ==
    LET url == failed_urls[i][2]
    IN CASE script = "persistent" ->
               row_data_persistent(url, result.data, result.status,
                                   result.retry_count)
         [] script = "working" ->
               row_data_working(url, result.data, result.status)
         [] script = "professional" ->
               row_data_professional(url, result.data, result.status)
         [] OTHER ->
               row_data_realtime(url, result.data, result.status)

\* Row row holds every cell of the outcome row.
HoldsOutcome(row) ==
    LET outcome_row == OutcomeRow
    IN \A k \in 1..Len(outcome_row) : Cell(row, k) = outcome_row[k]

\* The steps of the job loop (not the header setup, not the final note).
InJobLoop ==
    pc \in {"batch", "read", "job", "attempt", "update", "batch_end"}

\* C11: a fetch is made only while no outcome is held, and the loop moves to
\* the next job only in the step that writes the outcome of the job at hand;
\* a row update that succeeds has put the whole outcome row into the job's
\* row; and every step of the job loop leaves all rows as they were, except
\* the update step, which changes the row of the job at hand only, replacing
\* all cells of the outcome row at once.
C11_WriteBeforeNextFetch ==
    [][/\ job_fetches' > job_fetches => result = NoResult
       /\ (i' > i /\ i > 0) => pc = "update"
       /\ (pc = "update" /\ update_ok')
          => HoldsOutcome(sheet'[CurrentRow])
       /\ InJobLoop
          => \/ sheet' = sheet
             \/ /\ pc = "update"
                /\ Len(sheet') = Len(sheet)
                /\ \A r \in 1..Len(sheet) :
                      IF r = CurrentRow
                      THEN HoldsOutcome(sheet'[r])
                      ELSE sheet'[r] = sheet[r]]_vars

\* The second job of a batch is being fetched and the row of the first job
\* has been rewritten.
C11_Witness ==
    /\ i = 2
    /\ job_fetches >= 1
    /\ sheet[failed_urls[1][1]] # all_data[failed_urls[1][1]]

\* C12 (as stated): whatever the outcome of a job, the loop goes on with the
\* next job of the pending set until all of them were processed, and a fetch
\* failure whose row update succeeds is recorded on the job's row: its
\* Processing Status cell holds a failure status.
C12_FailureRecordedBatchContinues ==
    [][pc = "update"
       => /\ IF i < Len(failed_urls)
             THEN pc' = "job" /\ i' = i + 1
             ELSE pc' \in {"batch_end", "finish"}
          /\ (job_fetches > 0 /\ result.status # "SUCCESS" /\ update_ok')
             => /\ Cell(sheet'[CurrentRow], 12) # EMPTY
                /\ ~IsSuccessRow(script, sheet'[CurrentRow])]_vars

\* C13: when the row update of a job raises (persistent, working and
\* real-time extractors, whose update is the one store call that can leave a
\* trace), the sheet stays as it was, no counter moves, the loop goes on with
\* the next job, and in the persistent extractor the row is among the rows a
\* read of the sheet selects.
C13_WriteFailureKeepsRow ==
    [][(pc = "update" /\ script # "professional" /\ ~update_ok')
       => /\ sheet' = sheet
          /\ counters' = counters
          /\ IF i < Len(failed_urls)
             THEN pc' = "job" /\ i' = i + 1
             ELSE pc' \in {"batch_end", "finish"}
          /\ script = "persistent"
             => /\ CurrentRow \in DataRowNumbers(sheet')
                /\ needs_processing(sheet'[CurrentRow])]_vars

\* The row update of the last job of a persistent batch raised.
C13_Witness ==
    /\ script = "persistent"
    /\ pc = "batch_end"
    /\ ~update_ok
    /\ sheet = all_data

\* C14 (as stated): a read of the sheet that raises ends the invocation
\* without a count being returned.
C14_ReadFailureFatal ==
    read_raised => (pc = "done" /\ returned = << >>)

\* C14 (amended): a read that raises is caught.  The persistent extractor
\* gives up that batch attempt and reads again in the next one, and after the
\* last batch attempt returns the successes counted so far; the single-pass
\* and real-time extractors return 0.  The caller always gets a count.
C14_ReadFailureCaught ==
    /\ read_raised
       => IF script = "persistent"
          THEN \/ /\ pc = "batch"
                  /\ batch_attempt \in 1..(max_total_attempts - 1)
                  /\ returned = << >>
               \/ /\ pc = "done"
                  /\ batch_attempt = max_total_attempts
                  /\ returned = <<total_successful>>
          ELSE /\ pc = "done"
               /\ returned = <<0>>
    /\ pc = "done" => (Len(returned) = 1 /\ returned[1] \in Nat)

\* A read of the persistent extractor raised after an earlier batch had
\* successes, and the invocation has returned.
C14_Witness ==
    /\ script = "persistent"
    /\ read_raised
    /\ pc = "done"
    /\ total_successful > 0

SinglePass ==
    script \in {"working", "professional"}

\* C15 (as stated): a single-pass invocation returns the number of jobs
\* that reached SUCCESS in the pass.
C15_ReturnsSuccessCount ==
    (SinglePass /\ pc = "done") => returned = <<success_writes>>

\* C15 (amended): a single-pass invocation returns the number of jobs whose
\* row update returned True in the pass, whatever outcome was written: each
\* such update adds one to the counters (processed_count, and failed_count
\* in the professional extractor), an update that returns False adds nothing,
\* and the sum of the counters is returned.
C15_ReturnsUpdatedRows ==
    [][SinglePass
       => /\ pc = "update"
             => processed_count' + failed_count' =
                   processed_count + failed_count
                   + (IF update_ok' THEN 1 ELSE 0)
          /\ pc # "update"
             => processed_count' + failed_count' =
                   processed_count + failed_count
          /\ pc = "finish"
             => returned' = <<processed_count + failed_count>>
          /\ (pc = "read" /\ pc' = "done")
             => returned' = <<0>>]_vars

\* A single-pass invocation has returned a count that includes a job whose
\* outcome was a failure.
C15_Witness ==
    /\ SinglePass
    /\ pc = "done"
    /\ returned # << >>
    /\ returned[1] > success_writes

\* C16: when process_urls_persistently returns, whichever way, it returns the
\* number of row updates of the invocation that wrote a SUCCESS row.
C16_ReturnsCumulativeSuccesses ==
    (script = "persistent" /\ pc = "done") => returned = <<success_writes>>

\* A persistent invocation that went through more than one batch attempt has
\* returned with two rows written as SUCCESS.
C16_Witness ==
    /\ script = "persistent"
    /\ pc = "done"
    /\ batch_attempt >= 1
    /\ success_writes >= 2

\* The rows of sheet sh that are pending for the persistent extractor.
PendingRows(sh) ==
    {r \in 2..Len(sh) :
        LET u == Strip(Cell(sh[r], 1))
        IN /\ u # EMPTY
           /\ StartsWith(u, STR_http)
           /\ Contains(u, STR_instagram_com)
           /\ ~Contains(Cell(sh[r], 12), STR_SUCCESS_MARK)}

\* C17: a persistent invocation works on jobs in at most max_total_attempts
\* batch attempts; a batch that gets to its jobs has read the whole sheet as
\* it is at that moment and selected its pending rows from that read; and
\* when a read finds no pending row the invocation returns without another
\* batch.
C17_BatchCeiling ==
    [][script = "persistent"
       => /\ batch_attempt' <= max_total_attempts
          /\ pc' \in {"job", "attempt", "update", "batch_end"}
             => batch_attempt' < max_total_attempts
          /\ (pc = "batch" /\ pc' = "job")
             => /\ all_data' = sheet
                /\ SelectedRows' = PendingRows(sheet)
                /\ SelectedRows' # {}
          /\ (pc = "batch" /\ ~read_raised' /\ PendingRows(sheet) = {})
             => pc' = "done"
          /\ pc = "done" => pc' = "done"]_vars

\* The third batch of a persistent invocation has been worked through and
\* the invocation has returned with rows still pending.
C17_Witness ==
    /\ script = "persistent"
    /\ pc = "done"
    /\ batch_attempt = max_total_attempts
    /\ ~read_raised
    /\ PendingRows(sheet) # {}

\* The fetch attempts of the call so far, and whether all of them failed
\* with the rate-limit exception.
Attempts ==
    Len(call.outcomes)

AllRateLimited ==
    /\ Attempts >= 1
    /\ \A k \in 1..Attempts : call.outcomes[k] = "TooManyRequestsException"

\* C18: with a fetcher that fails every attempt RATE_LIMITED, each failure
\* is followed by the cool-down of RATE_LIMIT_COOLDOWN seconds, the call
\* makes no more than max_retries_per_url attempts, it goes on while it has
\* made fewer, and it returns after exactly that many with
\* ALL_RETRIES_FAILED.
C18_RateLimitedExhausts ==
    AllRateLimited
    => /\ call.cooldown = RATE_LIMIT_COOLDOWN
       /\ Attempts <= max_retries_per_url
       /\ IF Attempts < max_retries_per_url
          THEN call.pc = "loop" /\ call.attempt = Attempts
          ELSE /\ call.pc = "returned"
               /\ call.retval.status = "ALL_RETRIES_FAILED"
               /\ call.retval.retry_count = max_retries_per_url

\* The call has returned after max_retries_per_url rate-limited attempts.
C18_Witness ==
    /\ AllRateLimited
    /\ Attempts = max_retries_per_url
    /\ call.pc = "returned"

\* C19 as stated: the first attempt uses the session's loader and every
\* later attempt a freshly constructed one.
C19_FreshLoaderFromSecond ==
    Attempts >= 1
    => call.loader = IF Attempts = 1 THEN DEFAULT_LOADER ELSE FRESH_LOADER

\* C19: the first attempt uses the session's loader; every later attempt,
\* whatever the failures before it, asks for a freshly constructed loader
\* and uses it, or uses the session's loader when the construction raised.
C19_FreshLoaderUnlessConstructionFails ==
    /\ Attempts = 0 => call.loader = NO_LOADER
    /\ Attempts = 1 => call.loader = DEFAULT_LOADER /\ ~call.fresh_raised
    /\ Attempts >= 2
       => call.loader = IF call.fresh_raised THEN DEFAULT_LOADER
                        ELSE FRESH_LOADER

\* The third attempt, made after a rate-limit failure and a connection
\* failure, used a fresh loader.
C19_Witness ==
    /\ Attempts = 3
    /\ call.outcomes[1] = "TooManyRequestsException"
    /\ call.outcomes[2] = "ConnectionException"
    /\ call.loader = FRESH_LOADER

\* C20: nothing is slept before attempt 1; the delay slept before attempt
\* n >= 2 lies in 2n+1 .. 2n+3 and is not smaller than the delay slept
\* before attempt n-1.
C20_ProgressiveDelay ==
    [][LET n == Len(call'.outcomes)
       IN n = Attempts + 1
          => /\ n = 1 => call'.delay = 0
             /\ n >= 2 => /\ call'.delay \in (2 * n + 1)..(2 * n + 3)
                          /\ call'.delay >= call.delay]_vars

\* The delay before attempt 3 was the shortest possible, 7 seconds, which is
\* also the longest possible delay before attempt 2.
C20_Witness ==
    /\ Attempts = 3
    /\ call.delay = 7

\* The column of the persistent sheet that holds the attempt count ('Retry
\* Count', the last cell of the completed row).
COUNT_COLUMN ==
    14

\* C21: a job that is written as SUCCESS in a batch that follows a finished
\* batch of the same invocation was attempted in that earlier batch too, so
\* the count put on its row is more than the attempts of the latest call.
C21_CountCumulative ==
    [][(/\ script = "persistent"
        /\ pc = "update"
        /\ total_successful > 0
        /\ result.status = "SUCCESS"
        /\ update_ok')
       => Cell(sheet'[CurrentRow], COUNT_COLUMN) # Str(job_fetches)]_vars

\* C22: a row update of the persistent extractor changes only rows that hold
\* the reference of the job at hand, whatever another writer did to the sheet
\* since the batch's read.
C22_WriteFollowsReference ==
    [][(script = "persistent" /\ pc = "update" /\ update_ok')
       => \A r \in 1..Len(sheet') :
             (r > Len(sheet) \/ sheet'[r] # sheet[r])
             => /\ r <= Len(sheet)
                /\ Strip(Cell(sheet[r], 1)) = failed_urls[i][2]]_vars

\* A forced refresh is re-processing a row that an earlier run completed.
Reprocessing ==
    /\ script = "realtime"
    /\ force_refresh
    /\ pc \in {"job", "update"}
    /\ IsSuccessRow(script, all_data[CurrentRow])

\* C23 as stated: once the re-fetch of a completed row has failed, the row
\* in the sheet no longer shows the attributes of the earlier run.
C23_ClearedBeforeFetch ==
    (Reprocessing /\ pc = "update" /\ result.status # "SUCCESS")
    => AttributeCells(sheet[CurrentRow]) \in BlankCells

\* C23: while a completed row is re-processed the fetch leaves the sheet as it
\* is; the update that writes the outcome of a failed re-fetch blanks the
\* attributes and replaces the status in one write; and an update that raises
\* leaves the row as the earlier run completed it.
C23_ReplacedByOutcomeWrite ==
    [][Reprocessing
       => /\ pc = "job" => sheet' = sheet
          /\ (pc = "update" /\ ~update_ok') => sheet' = sheet
          /\ (pc = "update" /\ update_ok' /\ result.status # "SUCCESS")
             => /\ AttributeCells(sheet'[CurrentRow]) \in BlankCells
                /\ Cell(sheet'[CurrentRow], 12) # EMPTY
                /\ ~IsSuccessRow(script, sheet'[CurrentRow])]_vars

\* A row that was complete before a forced refresh now shows a failure
\* status and no attributes.
C23_Witness ==
    /\ script = "realtime"
    /\ force_refresh
    /\ Len(sheet) = Len(sheet0)
    /\ \E r \in DataRowNumbers(sheet) :
          /\ IsSuccessRow(script, sheet0[r])
          /\ Cell(sheet[r], 12) = STR_RT_ERROR
          /\ AttributeCells(sheet[r]) \in BlankCells

\* The scripts whose entry point returns as soon as its selection is empty.
EarlyReturnScripts ==
    {"persistent", "working", "professional"}

\* No row of sheet sh is pending for script s: for the persistent extractor no
\* Instagram reference without the SUCCESS mark, for the single-pass scripts
\* no Instagram reference at all.
NoPendingRow(s, sh) ==
    \A r \in 2..Len(sh) :
       LET u == Strip(Cell(sh[r], 1))
       IN \/ u = EMPTY
          \/ ~StartsWith(u, STR_http)
          \/ ~Contains(u, STR_instagram_com)
          \/ (s = "persistent" /\ Contains(Cell(sh[r], 12), STR_SUCCESS_MARK))

\* C24: when the sheet read at the start of a run or of a batch holds no
\* pending row, that step ends the invocation with the value 0, and it
\* fetches nothing and writes nothing.
C24_EmptyPendingReturnsZero ==
    [][(/\ script \in EarlyReturnScripts
        /\ pc \in {"batch", "read"}
        /\ ~read_raised'
        /\ NoPendingRow(script, sheet))
       => /\ pc' = "done"
          /\ returned' = <<0>>
          /\ sheet' = sheet
          /\ job_fetches' = 0
          /\ success_writes' = success_writes
          /\ counters' = counters]_vars

\* A run over a sheet with data rows, none of them pending, has returned 0
\* and left the sheet as it found it.
C24_Witness ==
    /\ script \in EarlyReturnScripts
    /\ pc = "done"
    /\ returned = <<0>>
    /\ ~read_raised
    /\ Len(sheet) > 1
    /\ NoPendingRow(script, sheet)
    /\ sheet = sheet0

C29_NextRunMovesOn ==
    [][(/\ single.pc = "find"
        /\ single'.pc = "extract"
        /\ single.prev_row # 0
        /\ \E r \in PendingRows(sheet) : r > single.prev_row)
       => single'.row_num > single.prev_row]_vars

\* The matches of '#\w+' in s from position k on, scanning left to right.
RECURSIVE TagMarkers(_, _)
TagMarkers(s, k) ==
    IF k >= Len(s) THEN 0
    ELSE IF s[k] = "#" /\ s[k + 1] \in WordChars
         THEN 1 + TagMarkers(s, k + 1 + Len(Run(s, WordChars, k + 1)))
         ELSE TagMarkers(s, k + 1)

\* The post of the single-job success scenario with the given caption.
IsScenarioPost(post, caption) ==
    /\ post.likes = 1234
    /\ post.comments = 56
    /\ ~post.is_video
    /\ post.caption = caption

\* The tag count and the content type of a written row follow the post.
RowFollowsPost ==
    (norm.pc = "built" /\ norm.out.selected)
    => /\ norm.out.row[9] = Str(TagMarkers(norm.post.caption, 1))
       /\ norm.out.row[6] = STR_PHOTO <=> ~norm.post.is_video

\* C26 as stated: the job with the reference at example.com, fetched with
\* caption "hello   world" (the tags "#a #b" come beside the caption or at
\* its end), is written with id ABC123, likes 1234, comments 56, type Photo,
\* caption "hello world", tag count 2 and status SUCCESS; and the tag count
\* and the content type of every written row follow the post.
C26_ScenarioRow ==
    /\ (/\ norm.pc = "built"
        /\ norm.url = URL_FOREIGN
        /\ \/ IsScenarioPost(norm.post, CAPTION_PLAIN)
           \/ IsScenarioPost(norm.post, CAPTION_TAGGED))
       => /\ norm.out.selected
          /\ norm.out.shortcode = ID_ABC123
          /\ norm.out.data.likes = 1234
          /\ norm.out.data.comments = 56
          /\ norm.out.row[6] = STR_PHOTO
          /\ norm.out.row[8] = <<"h", "e", "l", "l", "o", " ", "w", "o", "r", "l", "d">>
          /\ norm.out.row[9] = <<"2">>
          /\ norm.out.row[12] = STR_SUCCESS_MARK
    /\ RowFollowsPost

\* C26, amended: the job with the reference
\* "https://www.instagram.com/p/ABC123/?igsh=xyz", fetched with likes 1234,
\* comments 56, not a video and caption "hello   world #a #b", is written
\* with the post of id ABC123, likes "1,234", comments "56", type Photo,
\* caption "hello world #a #b", tag count 2 and the SUCCESS status; and the
\* tag count of every written row is the number of tag markers in the
\* fetched caption, its type Photo exactly when the post is not a video.
C26_ScenarioRowFromCaption ==
    /\ (/\ norm.pc = "built"
        /\ norm.url = URL_TRACKED
        /\ IsScenarioPost(norm.post, CAPTION_TAGGED))
       => /\ norm.out.selected
          /\ norm.out.shortcode = ID_ABC123
          /\ norm.out.row[3] = <<"1", ",", "2", "3", "4">>
          /\ norm.out.row[4] = <<"5", "6">>
          /\ norm.out.row[6] = STR_PHOTO
          /\ norm.out.row[8] = <<"h", "e", "l", "l", "o", " ", "w", "o", "r", "l", "d", " ", "#", "a", " ", "#", "b">>
          /\ norm.out.row[9] = <<"2">>
          /\ norm.out.row[12] = STR_SUCCESS_MARK
    /\ RowFollowsPost

\* The row of the scenario has been built.
C26_Witness ==
    /\ norm.pc = "built"
    /\ norm.url = URL_TRACKED
    /\ IsScenarioPost(norm.post, CAPTION_TAGGED)
    /\ norm.out.selected
    /\ Len(norm.out.row) = WIDTH_A_N

\* C27: _extract_shortcode returns the id of every reference of the /p/,
\* /reel/ and /tv/ shapes, the same with a tracking query suffix appended
\* as without; for a reference holding two shapes the pattern earlier in
\* the list gives the id; strings without one of the shapes give no id, with
\* or without the suffix.  The professional extractor's parser does the
\* same and also returns the id of the /reels/ shape.
C27_ParserCoversShapes ==
    norm.pc = "parsed"
    => /\ norm.out.plain = norm.expect
       /\ norm.out.suffixed = norm.expect
       /\ norm.out.professional = norm.expect_professional
       /\ norm.out.professional_suffixed = norm.expect_professional

\* A reel reference holding a second shape has been parsed with a tracking
\* suffix, and the id after /reel/ was not the one returned.
C27_Witness ==
    /\ norm.pc = "parsed"
    /\ norm.suffix = SUFFIX_IGSH
    /\ norm.url = HOST_INSTAGRAM \o STR_REEL \o ID_MIXED \o STR_P \o ID_ABC123
    /\ norm.out.suffixed = ID_ABC123

\* s with every maximal run of whitespace replaced by one space.
CollapseRuns(s) ==
    LET Kept(k) == ~IsSpace(s[k]) \/ k = 1 \/ ~IsSpace(s[k - 1])
        idx == SelectSeq([k \in 1..Len(s) |-> k], Kept)
    IN [j \in 1..Len(idx) |-> IF IsSpace(s[idx[j]]) THEN " " ELSE s[idx[j]]]

\* The collapsed text, cut to cap characters and marked when it is longer.
Capped(collapsed, cap) ==
    IF Len(collapsed) > cap
    THEN SubSeq(collapsed, 1, cap) \o STR_ELLIPSIS
    ELSE collapsed

\* C28 as stated: the caption written is the text with its runs of
\* whitespace collapsed to single spaces, cut to the cap and followed by
\* "..." when the collapsed text is longer than the cap and unchanged
\* otherwise, never longer than cap + 3; "No caption" for the empty text.
C28_CollapsedAndCapped ==
    norm.pc = "cleaned"
    => /\ Len(norm.out) <= norm.cap + 3
       /\ norm.out = IF norm.text = EMPTY THEN STR_NO_CAPTION
                     ELSE Capped(CollapseRuns(norm.text), norm.cap)

\* C28, amended: the same of the text with its runs of whitespace collapsed
\* to single spaces and the whitespace at its two ends removed.
C28_TrimmedCollapsedAndCapped ==
    norm.pc = "cleaned"
    => /\ Len(norm.out) <= norm.cap + 3
       /\ norm.out = IF norm.text = EMPTY THEN STR_NO_CAPTION
                     ELSE Capped(Strip(CollapseRuns(norm.text)), norm.cap)

\* A text of the persistent extractor with a line break, one character
\* longer than the cap once collapsed, has been cut and marked.
C28_Witness ==
    /\ norm.pc = "cleaned"
    /\ norm.cap = CAPTION_CAP
    /\ norm.text = Pad(CAPTION_CAP - 2) \o <<"\n", "a", "a">>
    /\ Len(norm.out) = CAPTION_CAP + 3
    /\ norm.out[CAPTION_CAP - 1] = " "

\* The references of all pending rows of sh cannot be parsed: each such job
\* fails for good with INVALID_URL whenever it is processed.
OnlyUnparsablePending(sh) ==
    \A r \in PendingRows(sh) : extract_shortcode(Strip(Cell(sh[r], 1))) = EMPTY

\* C30: when a batch of a persistent invocation has been worked through and
\* every job of the sheet is SUCCESS or was processed in that batch and
\* failed for good (here: its reference cannot be parsed), the invocation
\* ends there and goes on to no further batch.
C30_NoBatchForPermanentFailures ==
    [][(/\ script = "persistent"
        /\ pc = "batch_end"
        /\ PendingRows(sheet) \subseteq SelectedRows
        /\ OnlyUnparsablePending(sheet))
       => pc' = "done"]_vars

\* The numbers of S in ascending order.
RECURSIVE Ascending(_)
Ascending(S) ==
    IF S = {} THEN << >>
    ELSE <<Min(S)>> \o Ascending(S \ {Min(S)})

\* C31: the jobs of a batch are the pending rows of the sheet read, taken
\* one at a time in ascending row order: each job starts after the one
\* before it has ended, and exactly one pacing sleep lies between the end of
\* a job and the start of the next; no sleep follows the last job.  A batch
\* that got to its jobs ends with all of them done.
C31_OneAtATimePaced ==
    LET rows == Ascending(PendingRows(sheet0))
    IN /\ \A k \in 1..Len(pace.events) :
             LET j == ((k - 1) \div 3) + 1
                 m == (k - 1) % 3
             IN /\ j <= Len(rows)
                /\ m = 0 => pace.events[k] = <<"start", rows[j]>>
                /\ m = 1 => pace.events[k] = <<"end", rows[j]>>
                /\ m = 2 => /\ pace.events[k][1] = "sleep"
                            /\ pace.events[k][2] \in PacingDelays
                            /\ j < Len(rows)
       /\ (pace.pc = "done" /\ pace.jobs # << >>)
          => Len(pace.events) = 3 * Len(rows) - 1

\* A batch of two jobs has ended: the job of row 2, a sleep, the job of
\* row 3.
C31_Witness ==
    /\ pace.pc = "done"
    /\ Len(pace.events) = 5
    /\ pace.events[2] = <<"end", 2>>
    /\ pace.events[3][1] = "sleep"
    /\ pace.events[4] = <<"start", 3>>

\* C32: the row the persistent extractor builds for a failed job has as many
\* cells as the range A:N it is written to has columns, and its failure
\* status is in the Processing Status column, the 12th, the one the
\* selection of pending rows reads.
C32_FailureRowWellFormed ==
    (script = "persistent" /\ pc = "update" /\ result.status # "SUCCESS")
    => /\ Len(OutcomeRow) = WIDTH_A_N
       /\ OutcomeRow[12] \in {STR_FAILED_ALL, STR_PROC_FAILED}

\* C33: a row update of the manual processor goes to a data row (row 2 or
\* below) whatever TARGET_ROW says, and leaves the header row as it is.
C33_HeaderRowKept ==
    [][manual.pc = "update"
       => /\ manual.row_num >= 2
          /\ Len(sheet) >= 1 => sheet'[1] = sheet[1]]_vars

\* C34: a run of the manual processor that took its row by the PROCESS flag
\* and met no failing sheet call ends with COMPLETED or FAILED in the action
\* cell of that row; and the run after it does not take the same row by
\* its flag again.
C34_FlagRewritten ==
    [][/\ (manual'.pc = "ended" /\ manual.pc # "ended"
           /\ manual'.by_flag /\ ~manual'.raised)
          => Cell(sheet'[manual'.row_num], 1) \in {STR_COMPLETED, STR_FAILED}
       /\ (manual.pc = "find" /\ manual'.pc = "row" /\ manual'.by_flag
           /\ manual.prev_row # 0)
          => manual'.row_num # manual.prev_row]_vars

\* The rows of sheet sh that hold the success mark and did not before the
\* script started.
TurnedSuccess(sh) ==
    {r \in DataRowNumbers(sh) :
        /\ IsSuccessRow("persistent", sh[r])
        /\ r <= Len(sheet0) => ~IsSuccessRow("persistent", sheet0[r])}

\* C35: in a persistent invocation a batch selects no row that holds the
\* success mark, so no row is counted twice: the running total never
\* exceeds the number of rows with a reference, and between batches and at
\* the end it is the number of rows the invocation turned to SUCCESS.
C35_CountedOnce ==
    script = "persistent"
    => /\ \A k \in 1..Len(failed_urls) :
             ~IsSuccessRow(script, all_data[failed_urls[k][1]])
       /\ total_successful + batch_successful
             <= Cardinality({r \in DataRowNumbers(sheet) :
                                HasReference(sheet[r])})
       /\ pc \in {"batch", "done"}
          => total_successful = Cardinality(TurnedSuccess(sheet))
       /\ pc \in {"job", "attempt", "update", "batch_end"}
          => total_successful + batch_successful
                = Cardinality(TurnedSuccess(sheet))

\* The second batch of an invocation is at its end: the first batch turned
\* one row to SUCCESS, the second selected only the other row and turned it
\* to SUCCESS too.
C35_Witness ==
    /\ script = "persistent"
    /\ pc = "batch_end"
    /\ batch_attempt = 1
    /\ total_successful = 1
    /\ Len(failed_urls) = 1
    /\ batch_successful = 1
    /\ Cardinality(TurnedSuccess(sheet)) = 2

(* ------------- one persistent invocation run to its end ----------------- *)

\* The rows that differ in how a batch treats them: a post URL (a job with
\* fetches), an Instagram URL without a shortcode (a job without a fetch) and
\* a row an earlier run completed (no job).
JobKindRows ==
    {<<URL_POST>>, <<URL_NOCODE>>, CompletedRow("persistent")}

\* The persistent extractor right after construction, on an empty worksheet
\* or on a worksheet with its header row and at most MaxRows rows.
PersistentInit ==
    /\ Init
    /\ script = "persistent"
    /\ sheet \in {<< >>}
                 \cup {<<HEADERS_PERSISTENT>> \o rows :
                          rows \in DistinctSeqsUpTo(JobKindRows, MaxRows)}

\* The steps of the persistent extractor.
PersistentNext ==
    \/ SetupHeaders
    \/ BatchStart
    \/ JobStart
    \/ FetchAttempt
    \/ UpdateRow
    \/ BatchEnd

\* The invocation is one sequential thread whose waits (time.sleep) and
\* calls return: a step that can be taken is taken.
PersistentFairSpec ==
    PersistentInit /\ [][PersistentNext]_vars /\ WF_vars(PersistentNext)

\* The positions of the job loop.
JobPositions ==
    {"job", "attempt", "update"}

\* C36: every persistent invocation ends, whatever the fetcher and the
\* store answer, and no job gets more than max_retries_per_url *
\* max_total_attempts fetch attempts: a job gets at most max_retries_per_url
\* fetches per batch, a batch takes each row at most once and in order, and
\* jobs run only in the batches 0 .. max_total_attempts - 1, the batch
\* number growing by one from batch to batch.
C36_TerminatesWithinCeilings ==
    /\ <>(pc = "done")
    /\ [](/\ job_fetches <= max_retries_per_url
          /\ batch_attempt * max_retries_per_url + job_fetches
                <= max_retries_per_url * max_total_attempts
          /\ pc \in JobPositions
             => /\ batch_attempt < max_total_attempts
                /\ i \in 1..Len(failed_urls)
                /\ \A k, l \in 1..Len(failed_urls) :
                      k < l => failed_urls[k][1] < failed_urls[l][1])
    /\ [][/\ batch_attempt' \in {batch_attempt, batch_attempt + 1}
          /\ (pc \in JobPositions /\ pc' \in JobPositions)
             => /\ batch_attempt' = batch_attempt
                /\ failed_urls' = failed_urls
                /\ i' \in {i, i + 1}
                /\ i' = i + 1 => pc = "update"
          /\ job_fetches' > job_fetches
             => job_fetches' = job_fetches + 1 /\ pc = "attempt"]_vars

\* An invocation over a job with fetches and a job without is over after
\* max_total_attempts batches in which no fetch succeeded and no row was
\* written.
C36_Witness ==
    /\ script = "persistent"
    /\ pc = "done"
    /\ batch_attempt = max_total_attempts
    /\ total_successful = 0
    /\ sheet = sheet0
    /\ Cardinality(PendingRows(sheet0)) = 2
    /\ \E r \in PendingRows(sheet0) : extract_shortcode(sheet0[r][1]) # EMPTY

\* C37: when building the rotated loader raises in a retry, the call goes
\* on: the iteration fetches with the session's loader, its outcome is the
\* next entry of the call's attempts, a success returns SUCCESS with that
\* attempt's number, a failure leads to the next attempt or, at the ceiling,
\* to ALL_RETRIES_FAILED; never more than max_retries_per_url attempts.
C37_FallbackAttemptCounts ==
    [][(call.pc = "loop" /\ call'.fresh_raised)
       => /\ call.attempt >= 1
          /\ call'.loader = DEFAULT_LOADER
          /\ Len(call'.outcomes) = Len(call.outcomes) + 1
          /\ Len(call'.outcomes) = call.attempt + 1
          /\ Len(call'.outcomes) <= max_retries_per_url
          /\ LET outcome == call'.outcomes[Len(call'.outcomes)]
             IN IF outcome = "OK"
                THEN /\ call'.pc = "returned"
                     /\ call'.retval.status = "SUCCESS"
                     /\ call'.retval.retry_count = call.attempt + 1
                ELSE IF call'.pc = "loop"
                THEN call'.attempt = call.attempt + 1
                ELSE /\ call'.pc = "returned"
                     /\ call'.retval.status = "ALL_RETRIES_FAILED"
                     /\ (retry_after(outcome)
                         => Len(call'.outcomes) = max_retries_per_url)]_vars

\* The second attempt was made with the session's loader because building a
\* new one raised, and it succeeded.
C37_Witness ==
    /\ call.pc = "returned"
    /\ call.fresh_raised
    /\ call.loader = DEFAULT_LOADER
    /\ Len(call.outcomes) = 2
    /\ call.retval.status = "SUCCESS"
    /\ call.retval.retry_count = 2

====
